---- MODULE Spec2Model ----
(***************************************************************************)
(* A model of capuzzella's publish pipeline: the path guard (safePath),    *)
(* the HTTP handlers that take a page path, the asset publisher with the   *)
(* manifest file and its in-memory cache, and the page publish / status    *)
(* routes.  Strings whose characters matter (paths, file names, digests)   *)
(* are sequences of one-character strings.                                 *)
(***************************************************************************)
EXTENDS Integers, Sequences, FiniteSets, TLC

VARIABLES
    \* ---- one call of safePath or of one HTTP handler (SpecPath, SpecRoutes)
    call,          \* the input of the call: root, untrusted path, AI output
    phase,         \* "start" before the call, "done" after it
    ret,           \* what safePath returned or threw
    trace,         \* what a handler did: status, paths safePath accepted, file operations
    rw,            \* one load of a manifest file and the rewrite of one HTML text after it
    order,         \* bookkeeping: the pages saved since their latest publish
    gen,           \* a generateSitemap call in progress, step by step
    \* ---- the asset publisher (SpecAssets)
    draftAssetsDir,   \* does drafts/assets exist
    draftAssets,      \* drafts/assets: set of [rel, bytes]
    publicAssetsDir,  \* does public/assets exist
    publicAssets,     \* public/assets without manifest.json: set of [name, data]
    manifestFile,     \* public/assets/manifest.json: [present, wellFormed, entries]
    manifest,         \* asset-manifest.js: the in-memory manifest (set of [orig, fp])
    pub,              \* the running publishDraftAssets calls, per caller
    edits,            \* number of draft asset changes so far
    hist,             \* bookkeeping about completed publishes (not program state)
    \* ---- pages: drafts/, public/ and the page routes (SpecPages)
    draftPages,       \* drafts/**/*.html: set of [path, bytes, mtime]
    publicPages,      \* public/**/*.html: set of [path, bytes, mtime]
    now,              \* the file system's clock
    resp,             \* the answer of the operation that ran last
    pall,             \* POST /publish (publish all) in progress
    plist,            \* GET /pages in progress: the listed pages still to be given a status
    \* ---- the side effects of the page routes
    sitemap,          \* public/sitemap.xml: [present, urls]
    one,              \* POST /publish/* (publish one page) in progress
    faults,           \* how many more failures of a side effect the behaviour may see
    backups           \* number of backups made so far

callVars  == <<call, phase, ret, trace, rw>>
pathVars  == <<callVars, order, gen>>
assetVars == <<draftAssetsDir, draftAssets, publicAssetsDir, publicAssets, manifestFile, manifest, pub, edits, hist>>
pageVars  == <<draftPages, publicPages, now, resp, pall, plist>>
siteVars  == <<sitemap, one, faults, backups>>
vars      == <<pathVars, assetVars, pageVars, siteVars>>

(***************************************************************************)
(* Character strings                                                       *)
(***************************************************************************)
SEP     == <<"/">>
DOT     == <<".">>
DOTDOT  == <<".", ".">>

s_a       == <<"a">>
s_b_html  == <<"b", ".", "h", "t", "m", "l">>
s_etc     == <<"e", "t", "c">>
s_passwd  == <<"p", "a", "s", "s", "w", "d">>
s_srvx    == <<"s", "r", "v", "x">>
s_srv     == <<"s", "r", "v">>
s_drafts  == <<"d", "r", "a", "f", "t", "s">>
s_public  == <<"p", "u", "b", "l", "i", "c">>
s_editor  == <<"e", "d", "i", "t", "o", "r">>
s_static  == <<"s", "t", "a", "t", "i", "c">>
s_assets  == <<"a", "s", "s", "e", "t", "s">>
s_html    == <<".", "h", "t", "m", "l">>
s_index   == <<"i", "n", "d", "e", "x", ".", "h", "t", "m", "l">>

StartsWith(s, prefix) ==
    /\ Len(prefix) <= Len(s)
    /\ SubSeq(s, 1, Len(prefix)) = prefix

EndsWith(s, suffix) ==
    /\ Len(suffix) <= Len(s)
    /\ SubSeq(s, Len(s) - Len(suffix) + 1, Len(s)) = suffix

\* s.slice(n): the string without its first n characters
Slice(s, n) == IF n >= Len(s) THEN <<>> ELSE SubSeq(s, n + 1, Len(s))

RECURSIVE SplitFrom(_, _, _, _)
SplitFrom(s, i, cur, acc) ==
    IF i > Len(s) THEN Append(acc, cur)
    ELSE IF s[i] = "/" THEN SplitFrom(s, i + 1, <<>>, Append(acc, cur))
    ELSE SplitFrom(s, i + 1, Append(cur, s[i]), acc)

\* the segments of s between separators (empty ones included)
Split(s) == SplitFrom(s, 1, <<>>, <<>>)

RECURSIVE JoinFrom(_, _)
JoinFrom(segs, i) ==
    IF i > Len(segs) THEN <<>>
    ELSE IF i = Len(segs) THEN segs[i]
    ELSE segs[i] \o SEP \o JoinFrom(segs, i + 1)

JoinSegs(segs) == JoinFrom(segs, 1)

(***************************************************************************)
(* node:path (posix)                                                       *)
(***************************************************************************)
IsAbsolute(p) == Len(p) > 0 /\ p[1] = "/"

RECURSIVE NormFrom(_, _, _, _)
NormFrom(segs, i, acc, allowAboveRoot) ==
    IF i > Len(segs) THEN acc
    ELSE LET g == segs[i]
             nxt == IF g = <<>> \/ g = DOT THEN acc
                    ELSE IF g = DOTDOT
                         THEN IF Len(acc) > 0 /\ acc[Len(acc)] # DOTDOT
                              THEN SubSeq(acc, 1, Len(acc) - 1)
                              ELSE IF allowAboveRoot THEN Append(acc, DOTDOT) ELSE acc
                         ELSE Append(acc, g)
         IN NormFrom(segs, i + 1, nxt, allowAboveRoot)

\* normalizeString: resolves "." and ".." segments and drops empty ones
NormalizeString(p, allowAboveRoot) == JoinSegs(NormFrom(Split(p), 1, <<>>, allowAboveRoot))

\* path.normalize
PathNormalize(p) ==
    IF Len(p) = 0 THEN DOT
    ELSE LET abs      == IsAbsolute(p)
             trailing == p[Len(p)] = "/"
             n        == NormalizeString(p, ~abs)
         IN IF Len(n) = 0
            THEN (IF abs THEN SEP ELSE IF trailing THEN <<".", "/">> ELSE DOT)
            ELSE (IF abs THEN SEP ELSE <<>>) \o n \o (IF trailing THEN SEP ELSE <<>>)

\* path.join(a, b): the non-empty arguments joined by "/" and normalized
PathJoin(a, b) ==
    IF Len(a) = 0 /\ Len(b) = 0 THEN DOT
    ELSE IF Len(a) = 0 THEN PathNormalize(b)
    ELSE IF Len(b) = 0 THEN PathNormalize(a)
    ELSE PathNormalize(a \o SEP \o b)

\* the working directory path.resolve falls back to when no argument is absolute
CWD == <<"/", "w">>

\* path.resolve(a, b): right to left until an absolute path is built, then normalized
PathResolve(a, b) ==
    LET right == b
        mid   == IF IsAbsolute(right) \/ Len(a) = 0 THEN right
                 ELSE IF Len(right) = 0 THEN a ELSE a \o SEP \o right
        full  == IF IsAbsolute(mid) THEN mid
                 ELSE IF Len(mid) = 0 THEN CWD ELSE CWD \o SEP \o mid
    IN SEP \o NormalizeString(full, FALSE)

\* index (1-based) of the last "/" of p, 0 if none
RECURSIVE LastIndexOf(_, _, _)
LastIndexOf(s, c, i) ==
    IF i = 0 THEN 0 ELSE IF s[i] = c THEN i ELSE LastIndexOf(s, c, i - 1)

\* p without trailing separators (a lone "/" is kept)
RECURSIVE StripTrailing(_)
StripTrailing(p) ==
    IF Len(p) > 1 /\ p[Len(p)] = "/" THEN StripTrailing(SubSeq(p, 1, Len(p) - 1)) ELSE p

\* path.dirname
PathDirname(p) ==
    IF Len(p) = 0 THEN DOT
    ELSE LET q == StripTrailing(p)
             k == LastIndexOf(q, "/", Len(q))
         IN IF k = 0 THEN DOT
            ELSE IF k = 1 THEN SEP
            ELSE StripTrailing(SubSeq(q, 1, k - 1))

\* path.basename
PathBasename(p) ==
    LET q == StripTrailing(p)
        k == LastIndexOf(q, "/", Len(q))
    IN IF q = SEP THEN <<>> ELSE Slice(q, k)

(***************************************************************************)
(* src/lib/safe-path.js                                                    *)
(***************************************************************************)
\* a JavaScript value handed to safePath as userPath
JsString(s)  == [type |-> "string", str |-> s, num |-> 0]
JsNumber(n)  == [type |-> "number", str |-> <<>>, num |-> n]
JsUndefined  == [type |-> "undefined", str |-> <<>>, num |-> 0]
JsNull       == [type |-> "object", str |-> <<>>, num |-> 0]

\* !v
Falsy(v) ==
    \/ v.type = "undefined"
    \/ v = JsNull
    \/ v.type = "number" /\ v.num = 0
    \/ v.type = "string" /\ v.str = <<>>

Returned(p) == [threw |-> FALSE, path |-> p]
Thrown      == [threw |-> TRUE, path |-> <<>>]

\* the mutant of the containment test: a prefix test without the separator
InsideBaseNoSep(resolved, baseDir) ==
    resolved = baseDir \/ StartsWith(resolved, baseDir)

\* safe-path.js:30, negated: resolved === baseDir || resolved.startsWith(baseDir + path.sep)
InsideBase(resolved, baseDir) ==
    resolved = baseDir \/ StartsWith(resolved, baseDir \o SEP)

safePath(baseDir, userPath) ==
    IF Falsy(userPath) \/ userPath.type # "string" THEN Thrown
    ELSE LET resolved == PathResolve(baseDir, userPath.str)
         IN IF ~InsideBase(resolved, baseDir) THEN Thrown ELSE Returned(resolved)

(***************************************************************************)
(* src/routes/publish.js: the asset publisher; asset-manifest.js           *)
(***************************************************************************)
HexDigits == <<"0", "1", "2", "3", "4", "5", "6", "7", "8", "9", "a", "b", "c", "d", "e", "f">>

Hex2(n) == <<HexDigits[(n \div 16) + 1], HexDigits[(n % 16) + 1]>>

RECURSIVE DigestFold(_, _, _)
DigestFold(bytes, i, h) ==
    IF i > Len(bytes) THEN h ELSE DigestFold(bytes, i + 1, (h * 31 + bytes[i] + 7) % 256)

\* mutants of the digest: one that also depends on what is already published, one
\* that also depends on how often the drafts were edited
DigestOfPublished(bytes) == Hex2(DigestFold(bytes \o <<Cardinality(publicAssets)>>, 1, 0))
DigestOfEdits(bytes) == Hex2(DigestFold(bytes \o <<edits>>, 1, 0))

\* crypto.createHash('md5').update(content).digest('hex'): a digest of the bytes and
\* of nothing else, in hex (a short digest stands for MD5's 32 digits)
Digest(bytes) == Hex2(DigestFold(bytes, 1, 0))

\* brotliCompressSync(content)
Brotli(bytes) == [enc |-> "br", bytes |-> bytes]
Raw(bytes)    == [enc |-> "raw", bytes |-> bytes]

s_br == <<".", "b", "r">>

\* publish.js fingerprintedName: insert .<hash> before the last extension
fingerprintedName(relativePath, hash) ==
    LET dir     == PathDirname(relativePath)
        base    == PathBasename(relativePath)
        lastDot == LastIndexOf(base, ".", Len(base)) - 1
    IN IF lastDot <= 0 THEN PathJoin(dir, base \o DOT \o hash)
       ELSE LET nameWithoutExt == SubSeq(base, 1, lastDot)
                ext            == Slice(base, lastDot)
            IN PathJoin(dir, nameWithoutExt \o DOT \o hash \o ext)

\* the draft asset files the model draws from, in directory order
a_css    == <<"a", ".", "c", "s", "s">>
d_n      == <<"d", "/", "n">>
a_css_br == a_css \o s_br

AssetPool == <<a_css, a_css_br, d_n>>

b_1 == <<1>>
b_2 == <<2>>
b_3 == <<1, 2>>

Contents == {b_1, b_2}

Callers == {1, 2}

\* the most changes made to the draft assets in one behaviour
MaxEdits == 2

\* how many writes or side effects may be seen to fail
MaxFaults == 1

HasDraft(rel) == \E f \in draftAssets : f.rel = rel
DraftBytes(rel) == (CHOOSE f \in draftAssets : f.rel = rel).bytes

\* publish.js listFilesRecursive(DRAFTS_ASSETS_DIR)
listFilesRecursive == SelectSeq(AssetPool, HasDraft)

\* fs.writeFile(name, data) on a tree of files
WriteFile(files, name, data) ==
    {f \in files : f.name # name} \cup {[name |-> name, data |-> data]}

\* JSON.stringify of the manifest object: its entries in insertion order
NoFile == [present |-> FALSE, wellFormed |-> TRUE, text |-> <<>>]
JsonStringify(entries) == [present |-> TRUE, wellFormed |-> TRUE, text |-> entries]

\* JSON.parse of a manifest text: the object with one property per key, the last
\* entry of a key winning
JsonParse(text) ==
    {[orig |-> text[i].orig, fp |-> text[i].fp] :
        i \in {j \in 1..Len(text) : \A k \in (j + 1)..Len(text) : text[k].orig # text[j].orig}}

\* publish.js:94-97: the manifest object built from hashByBasePath
ManifestEntries(hashByBasePath) ==
    [i \in 1..Len(hashByBasePath) |->
        [orig |-> hashByBasePath[i].rel,
         fp   |-> fingerprintedName(hashByBasePath[i].rel, hashByBasePath[i].hash)]]

\* asset-manifest.js loadManifest, the assignment after the read: the parsed file,
\* or {} when the file is missing or does not parse
ManifestFromRead(data) ==
    IF data.present /\ data.wellFormed THEN JsonParse(data.text) ELSE {}

IdlePub == [pc |-> "idle", entries |-> <<>>, i |-> 0, content |-> <<>>,
            hashByBasePath |-> <<>>, data |-> NoFile]

\* what a completed publish left behind, kept for the comparison of two publishes in
\* a row; valid when the publish returned after running alone on unchanged drafts
NoSnap == [valid |-> FALSE, drafts |-> {}, manifestFile |-> NoFile, publicAssets |-> {}]

\* the manifest file, the in-memory manifest and the public assets as the publish in
\* progress found them
Found(file, cache, public) == [manifestFile |-> file, manifest |-> cache, publicAssets |-> public]

\* the draft assets a site starts with
SeedAssets == {[rel |-> a_css, bytes |-> b_1], [rel |-> d_n, bytes |-> b_2]}

AssetsStart(seed, tracking) ==
    /\ draftAssetsDir = (seed # {})
    /\ draftAssets = seed
    /\ publicAssetsDir = FALSE
    /\ publicAssets = {}
    /\ manifestFile = NoFile
    /\ manifest = {}
    /\ pub = [c \in Callers |-> IdlePub]
    /\ edits = 0
    /\ hist = [on |-> tracking, prev |-> NoSnap, last |-> NoSnap,
               clean |-> [c \in Callers |-> FALSE], start |-> Found(NoFile, {}, {})]

\* ---------------------------------------------------------------------------
\* Pages at rest: both trees empty, no request answered, nothing in progress
\* ---------------------------------------------------------------------------
NoResp == [op |-> "none", path |-> <<>>, code |-> 0,
           isPublished |-> FALSE, hasUnpublishedChanges |-> FALSE,
           assets |-> "none", sitemap |-> "none"]

IdlePall == [pc |-> "idle", pages |-> <<>>, i |-> 1, published |-> <<>>, errors |-> <<>>,
             status |-> 0, lost |-> {}, after |-> {}]

PagesAtRest ==
    /\ draftPages = {}
    /\ publicPages = {}
    /\ now = 0
    /\ resp = NoResp
    /\ pall = IdlePall
    /\ plist = {}

\* no sitemap yet, no publish of one page in progress; f failures may be seen
NoSitemap == [present |-> FALSE, urls |-> <<>>, pageCount |-> 0]
IdleOne   == [pc |-> "idle", path |-> <<>>]

SiteAtRest(f) ==
    /\ sitemap = NoSitemap
    /\ one = IdleOne
    /\ faults = f
    /\ backups = 0

EmptyObject == [kind |-> "object", entries |-> <<>>]
IdleRw == [pc |-> "idle", file |-> [state |-> "missing", value |-> EmptyObject],
           manifest |-> EmptyObject, refs |-> <<>>, html |-> <<>>,
           out |-> [threw |-> FALSE, html |-> <<>>],
           again |-> [threw |-> FALSE, html |-> <<>>]]

\* the order of saves and publishes is kept only where it is compared with the status
NoOrder == [on |-> FALSE, saved |-> {}]

\* no generateSitemap call is being followed step by step
IdleGen == [pc |-> "idle", stack |-> <<>>, pages |-> <<>>]

PathAtRest ==
    /\ order = NoOrder
    /\ gen = IdleGen
    /\ rw = IdleRw
    /\ call = [root |-> <<>>, userPath |-> JsUndefined,
               ai |-> [action |-> "respond", newPagePath |-> JsUndefined]]
    /\ phase = "done"
    /\ ret = [threw |-> FALSE, path |-> <<"?">>]
    /\ trace = [handler |-> "none", status |-> 0, accepted |-> {}, ops |-> {}]

AssetsAtRest == AssetsStart({}, FALSE)

\* a fresh checkout: no public/assets yet, the manifest loaded at startup as {}; the
\* draft assets are either not there at all or the seed
InitAssets == (AssetsStart({}, FALSE) \/ AssetsStart(SeedAssets, FALSE)) /\ PathAtRest /\ PagesAtRest /\ SiteAtRest(0)

\* the same start, with the bookkeeping that compares publishes run one after another
InitAssetsSeq == (AssetsStart({}, TRUE) \/ AssetsStart(SeedAssets, TRUE)) /\ PathAtRest /\ PagesAtRest /\ SiteAtRest(0)

\* the outcomes a file write or a side effect can have while failures may still be
\* seen
Outcomes == IF faults > 0 THEN {"ok", "failed"} ELSE {"ok"}
Failed(outcome) == IF outcome = "failed" THEN 1 ELSE 0

Active(c) == pub[c].pc \notin {"idle", "returned", "threw"}

\* a change of the draft assets spoils the comparison of every call in progress
Spoiled == [c \in Callers |-> FALSE]

\* the bookkeeping is kept only where two publishes in a row are compared
Track(h) == IF hist.on THEN h ELSE hist

\* the bookkeeping when caller c's publish completes, normally or by throwing
Completed(c, normally) ==
    [hist EXCEPT !.prev = hist.last,
                 !.last = IF normally /\ hist.clean[c]
                          THEN [valid |-> TRUE, drafts |-> draftAssets,
                                manifestFile |-> manifestFile, publicAssets |-> publicAssets]
                          ELSE NoSnap,
                 !.clean[c] = FALSE]

\* the editor writes a draft asset (creating drafts/assets if need be)
WriteDraftAsset(rel, bytes) ==
    /\ edits < MaxEdits
    /\ ~(HasDraft(rel) /\ DraftBytes(rel) = bytes)
    /\ draftAssets' = {f \in draftAssets : f.rel # rel} \cup {[rel |-> rel, bytes |-> bytes]}
    /\ draftAssetsDir' = TRUE
    /\ edits' = edits + 1
    /\ hist' = Track([hist EXCEPT !.clean = Spoiled])
    /\ UNCHANGED <<publicAssetsDir, publicAssets, manifestFile, manifest, pub, pathVars, pageVars, siteVars>>

\* the editor deletes a draft asset
DeleteDraftAsset(rel) ==
    /\ edits < MaxEdits
    /\ HasDraft(rel)
    /\ draftAssets' = {f \in draftAssets : f.rel # rel}
    /\ edits' = edits + 1
    /\ hist' = Track([hist EXCEPT !.clean = Spoiled])
    /\ UNCHANGED <<draftAssetsDir, publicAssetsDir, publicAssets, manifestFile, manifest, pub, pathVars, pageVars, siteVars>>

\* mutation of SkipBr: no entry is skipped
SkipNothing(entries, i) == i

\* the first index >= i of an entry that is not skipped as a .br file
RECURSIVE SkipBr(_, _)
SkipBr(entries, i) ==
    IF i <= Len(entries) /\ EndsWith(entries[i], s_br) THEN SkipBr(entries, i + 1) ELSE i

\* publishDraftAssets, lines 62-68: list the draft assets, or return when there are none
PubList(c) ==
    /\ pub[c].pc = "idle"
    /\ LET alone   == \A e \in Callers \ {c} : ~Active(e)
           started == [hist EXCEPT !.clean = [d \in Callers |-> d = c /\ alone],
                                   !.start = Found(manifestFile, manifest, publicAssets)]
       IN IF ~draftAssetsDir
          THEN /\ pub' = [pub EXCEPT ![c].pc = "returned"]
               /\ hist' = Track([started EXCEPT
                                    !.prev = hist.last,
                                    !.last = IF alone
                                             THEN [valid |-> TRUE, drafts |-> draftAssets,
                                                   manifestFile |-> manifestFile,
                                                   publicAssets |-> publicAssets]
                                             ELSE NoSnap,
                                    !.clean[c] = FALSE])
          ELSE /\ pub' = [pub EXCEPT ![c] = [IdlePub EXCEPT !.pc = "loop",
                                            !.entries = listFilesRecursive,
                                            !.i = SkipBr(listFilesRecursive, 1)]]
               /\ hist' = Track(started)
    /\ UNCHANGED <<draftAssetsDir, draftAssets, publicAssetsDir, publicAssets,
                   manifestFile, manifest, edits, pathVars, pageVars, siteVars>>

\* mutation of Abort: the failure of one asset is skipped and the loop goes on
ContinueWithNext(c) ==
    [pub EXCEPT ![c].pc = "loop", ![c].i = SkipBr(pub[c].entries, pub[c].i + 1)]

\* no try/catch in the loop: a failing read or write throws out of publishDraftAssets
Abort(c) == [pub EXCEPT ![c].pc = "threw"]

\* lines 76-79: read the file and hash it; a file deleted since the listing throws
PubRead(c) ==
    /\ pub[c].pc = "loop"
    /\ pub[c].i <= Len(pub[c].entries)
    /\ LET rel == pub[c].entries[pub[c].i]
       IN IF ~HasDraft(rel)
          THEN /\ pub' = Abort(c)
               /\ hist' = Track(Completed(c, FALSE))
          ELSE /\ pub' = [pub EXCEPT ![c].pc = "write",
                                     ![c].content = DraftBytes(rel),
                                     ![c].hashByBasePath =
                                         Append(@, [rel |-> rel, hash |-> Digest(DraftBytes(rel))])]
               /\ UNCHANGED hist
    /\ UNCHANGED <<draftAssetsDir, draftAssets, publicAssetsDir, publicAssets,
                   manifestFile, manifest, edits, pathVars, pageVars, siteVars>>

\* mutation of Written: the file is read again when it is written
ReadAgain(c) ==
    LET rel == pub[c].entries[pub[c].i]
    IN IF HasDraft(rel) THEN DraftBytes(rel) ELSE pub[c].content

\* the bytes written are the `content` that was read and hashed (lines 77, 86, 89)
Written(c) == pub[c].content

\* mutation of OutName: the file is written under the name of the draft
OutNamePlain(c) == pub[c].hashByBasePath[Len(pub[c].hashByBasePath)].rel

\* the output name of the entry being processed (line 81)
OutName(c) ==
    LET e == pub[c].hashByBasePath[Len(pub[c].hashByBasePath)]
    IN fingerprintedName(e.rel, e.hash)

\* lines 83-86: create the directory and write the fingerprinted file; a write that
\* fails throws
PubWriteFile(c) ==
    /\ pub[c].pc = "write"
    /\ publicAssetsDir' = TRUE
    /\ \E outcome \in Outcomes :
        /\ faults' = faults - Failed(outcome)
        /\ IF outcome = "ok"
           THEN /\ publicAssets' = WriteFile(publicAssets, OutName(c), Raw(Written(c)))
                /\ pub' = [pub EXCEPT ![c].pc = "br"]
                /\ UNCHANGED hist
           ELSE /\ UNCHANGED publicAssets
                /\ pub' = Abort(c)
                /\ hist' = Track(Completed(c, FALSE))
    /\ UNCHANGED <<draftAssetsDir, draftAssets, manifestFile, manifest, edits, pathVars,
                   pageVars, sitemap, one, backups>>

\* lines 89-90: write the Brotli sibling, then go on with the next entry
PubWriteBr(c) ==
    /\ pub[c].pc = "br"
    /\ \E outcome \in Outcomes :
        /\ faults' = faults - Failed(outcome)
        /\ IF outcome = "ok"
           THEN /\ publicAssets' = WriteFile(publicAssets, OutName(c) \o s_br, Brotli(Written(c)))
                /\ pub' = [pub EXCEPT ![c].pc = "loop", ![c].i = SkipBr(pub[c].entries, pub[c].i + 1)]
                /\ UNCHANGED hist
           ELSE /\ UNCHANGED publicAssets
                /\ pub' = Abort(c)
                /\ hist' = Track(Completed(c, FALSE))
    /\ UNCHANGED <<draftAssetsDir, draftAssets, publicAssetsDir, manifestFile, manifest,
                   edits, pathVars, pageVars, sitemap, one, backups>>

\* lines 94-101: write manifest.json; without public/assets the write throws
PubWriteManifest(c) ==
    /\ pub[c].pc = "loop"
    /\ pub[c].i > Len(pub[c].entries)
    /\ IF ~publicAssetsDir
       THEN /\ pub' = [pub EXCEPT ![c].pc = "threw"]
            /\ hist' = Track(Completed(c, FALSE))
            /\ UNCHANGED manifestFile
       ELSE /\ manifestFile' = JsonStringify(ManifestEntries(pub[c].hashByBasePath))
            /\ pub' = [pub EXCEPT ![c].pc = "load"]
            /\ UNCHANGED hist
    /\ UNCHANGED <<draftAssetsDir, draftAssets, publicAssetsDir, publicAssets, manifest,
                   edits, pathVars, pageVars, siteVars>>

\* loadManifest line 22: read manifest.json
PubLoadRead(c) ==
    /\ pub[c].pc = "load"
    /\ pub' = [pub EXCEPT ![c].pc = "assign", ![c].data = manifestFile]
    /\ UNCHANGED <<draftAssetsDir, draftAssets, publicAssetsDir, publicAssets, manifestFile,
                   manifest, edits, hist, pathVars, pageVars, siteVars>>

\* loadManifest lines 23-30: replace the in-memory manifest; publishDraftAssets returns
PubLoadAssign(c) ==
    /\ pub[c].pc = "assign"
    /\ manifest' = ManifestFromRead(pub[c].data)
    /\ pub' = [pub EXCEPT ![c].pc = "returned"]
    /\ hist' = Track(Completed(c, TRUE))
    /\ UNCHANGED <<draftAssetsDir, draftAssets, publicAssetsDir, publicAssets, manifestFile,
                   edits, pathVars, pageVars, siteVars>>

\* the caller goes on after the call
PubDone(c) ==
    /\ pub[c].pc \in {"returned", "threw"}
    /\ pub' = [pub EXCEPT ![c] = IdlePub]
    /\ UNCHANGED <<draftAssetsDir, draftAssets, publicAssetsDir, publicAssets, manifestFile,
                   manifest, edits, hist, pathVars, pageVars, siteVars>>

PoolRels == {AssetPool[i] : i \in 1..Len(AssetPool)}

EditDraftAssets ==
    \/ \E rel \in PoolRels, bytes \in Contents : WriteDraftAsset(rel, bytes)
    \/ \E rel \in PoolRels : DeleteDraftAsset(rel)

PublishStep(c) ==
    \/ PubList(c)
    \/ PubRead(c)
    \/ PubWriteFile(c)
    \/ PubWriteBr(c)
    \/ PubWriteManifest(c)
    \/ PubLoadRead(c)
    \/ PubLoadAssign(c)
    \/ PubDone(c)

\* two requests may run publishDraftAssets at once, their awaits interleaving
NextAssets == EditDraftAssets \/ \E c \in Callers : PublishStep(c)

SpecAssets == InitAssets /\ [][NextAssets]_vars

\* one request at a time runs publishDraftAssets, the editor working in between
NextAssetsSeq == EditDraftAssets \/ PublishStep(1)

SpecAssetsSeq == InitAssetsSeq /\ [][NextAssetsSeq]_vars

\* the same, with writes of public assets that may fail
InitAssetsFaulty ==
    (AssetsStart({}, TRUE) \/ AssetsStart(SeedAssets, TRUE))
        /\ PathAtRest /\ PagesAtRest /\ SiteAtRest(MaxFaults)

SpecAssetsFaulty == InitAssetsFaulty /\ [][NextAssetsSeq]_vars

(***************************************************************************)
(* The asset publisher's claims                                            *)
(***************************************************************************)
FileManifest(file) == ManifestFromRead(file)

\* the last two publishes each returned after running alone on unchanged drafts
TwoInARow == hist.prev.valid /\ hist.last.valid

\* C1: a publish that follows a publish, with the draft assets unchanged in between,
\* leaves the same manifest, the same public file names and the same file contents.
C1_PublishIdempotent ==
    (TwoInARow /\ hist.prev.drafts = hist.last.drafts) =>
        /\ FileManifest(hist.last.manifestFile) = FileManifest(hist.prev.manifestFile)
        /\ {f.name : f \in hist.last.publicAssets} = {f.name : f \in hist.prev.publicAssets}
        /\ hist.last.publicAssets = hist.prev.publicAssets

\* C1 witness: the second of two publishes of the same two assets has returned
C1_Witness ==
    /\ TwoInARow
    /\ hist.prev.drafts = hist.last.drafts
    /\ Cardinality(FileManifest(hist.last.manifestFile)) = 2
    /\ Cardinality(hist.last.publicAssets) = 4

RelsOf(drafts) == {f.rel : f \in drafts}

\* the draft assets whose bytes differ between two states of the draft tree
ChangedRels(before, after) ==
    {rel \in RelsOf(before) \cap RelsOf(after) :
        \E f \in before, g \in after : f.rel = rel /\ g.rel = rel /\ f.bytes # g.bytes}

OneChanged ==
    /\ TwoInARow
    /\ RelsOf(hist.prev.drafts) = RelsOf(hist.last.drafts)
    /\ Cardinality(ChangedRels(hist.prev.drafts, hist.last.drafts)) = 1

\* C2: when exactly one draft asset's bytes changed between two publishes, only that
\* asset's manifest entry has a new value; every other entry and every file published
\* before is unchanged, and the only new files are the changed asset's.
C2_OnlyChangedAssetMoves ==
    OneChanged =>
        LET ch  == CHOOSE rel \in ChangedRels(hist.prev.drafts, hist.last.drafts) : TRUE
            old == FileManifest(hist.prev.manifestFile)
            new == FileManifest(hist.last.manifestFile)
        IN /\ {e \in old : e.orig # ch} = {e \in new : e.orig # ch}
           /\ \A e \in new : e.orig = ch => e \notin old
           /\ hist.prev.publicAssets \subseteq hist.last.publicAssets
           /\ \A f \in hist.last.publicAssets \ hist.prev.publicAssets :
                 \E e \in new : e.orig = ch /\ f.name \in {e.fp, e.fp \o s_br}

\* C2 witness: a.css changed between two publishes, d/n did not
C2_Witness ==
    /\ OneChanged
    /\ ChangedRels(hist.prev.drafts, hist.last.drafts) = {a_css}
    /\ \E e \in FileManifest(hist.last.manifestFile) : e.orig = d_n
    /\ \E e \in FileManifest(hist.last.manifestFile) : e.orig = a_css
    /\ hist.last.manifestFile # hist.prev.manifestFile

\* the position of the last "." of a relative path's file name, 0 when the file name
\* has none after its first character
RECURSIVE ExtensionAt(_, _)
ExtensionAt(rel, i) ==
    IF i <= 1 THEN 0
    ELSE IF rel[i] = "/" \/ rel[i - 1] = "/" THEN 0
    ELSE IF rel[i] = "." THEN i
    ELSE ExtensionAt(rel, i - 1)

\* a name with the digest put before its final extension (after the name, when the
\* file name has no extension)
DigestBeforeExtension(rel, digest) ==
    LET k == ExtensionAt(rel, Len(rel))
    IN IF k = 0 THEN rel \o DOT \o digest
       ELSE SubSeq(rel, 1, k - 1) \o DOT \o digest \o SubSeq(rel, k, Len(rel))

\* the draft assets that a publish is to publish: all but the .br files
Publishable(drafts) == {f \in drafts : ~EndsWith(f.rel, s_br)}

PublishedAsIs(f, m, public) ==
    \E e \in m :
        /\ e.orig = f.rel
        /\ e.fp = DigestBeforeExtension(f.rel, Digest(f.bytes))
        /\ [name |-> e.fp, data |-> Raw(f.bytes)] \in public
        /\ \E g \in public : g.name = e.fp \o s_br

\* C11: after a publish whose asset step succeeded (run alone, the drafts unchanged
\* meanwhile), the manifest's keys are exactly the draft assets not ending in .br,
\* each value is the key with the digest of the draft's bytes before its final
\* extension, and that file, with the draft's bytes, and its .br sibling are in
\* public/assets.
C11_ManifestMatchesDrafts ==
    hist.last.valid =>
        LET m == FileManifest(hist.last.manifestFile)
        IN /\ {e.orig : e \in m} = RelsOf(Publishable(hist.last.drafts))
           /\ Cardinality(m) = Cardinality(Publishable(hist.last.drafts))
           /\ \A f \in Publishable(hist.last.drafts) :
                 PublishedAsIs(f, m, hist.last.publicAssets)

\* C11 witness: a publish of a.css and d/n with a draft a.css.br lying next to them
C11_Witness ==
    /\ hist.last.valid
    /\ RelsOf(hist.last.drafts) = {a_css, a_css_br, d_n}
    /\ Cardinality(FileManifest(hist.last.manifestFile)) = 2

ReturnsNormally(c) == pub[c].pc # "returned" /\ pub'[c].pc = "returned"

\* C3: whenever publishDraftAssets returns normally, the in-memory manifest equals
\* the content of manifest.json.
C3_CacheMatchesFileAtReturn ==
    [][\A c \in Callers : ReturnsNormally(c) => manifest' = FileManifest(manifestFile')]_vars

\* C4: once two publishes have both returned, overlapping or not, the in-memory
\* manifest and manifest.json hold the same manifest.
C4_OverlapLastWriterWins ==
    (\A c \in Callers : pub[c].pc = "returned") => manifest = FileManifest(manifestFile)

(***************************************************************************)
(* SpecPath: one call of safePath on every root and every untrusted input  *)
(***************************************************************************)
\* the longest untrusted path drawn, in segments
MaxSegs == 4

Segs == {DOTDOT, s_a, s_b_html, s_etc, s_passwd, s_srvx}

SegSeqs == UNION {[1..n -> Segs] : n \in 1..MaxSegs}

\* the untrusted path strings: relative and absolute paths of up to MaxSegs segments
UserPaths ==
    {(IF abs THEN SEP ELSE <<>>) \o JoinSegs(ss) : abs \in BOOLEAN, ss \in SegSeqs}

\* everything a caller may hand over as userPath
UserInputs ==
    {JsString(p) : p \in UserPaths}
        \cup {JsString(<<>>), JsUndefined, JsNull, JsNumber(0), JsNumber(7)}

r_root       == SEP
r_srv        == SEP \o s_srv
r_srv_slash  == SEP \o s_srv \o SEP
r_srv_a      == SEP \o s_srv \o SEP \o s_a
r_etc        == SEP \o s_etc
r_etc_passwd == SEP \o s_etc \o SEP \o s_passwd

Roots == {r_root, r_srv, r_srv_slash, r_srv_a, r_etc, r_etc_passwd}

NoRet   == [threw |-> FALSE, path |-> <<"?">>]
NoTrace == [handler |-> "none", status |-> 0, accepted |-> {}, ops |-> {}]
NoAi    == [action |-> "respond", newPagePath |-> JsUndefined]


InitPath ==
    /\ call \in {[root |-> r, userPath |-> u, ai |-> NoAi] : r \in Roots, u \in UserInputs}
    /\ phase = "start"
    /\ ret = NoRet
    /\ trace = NoTrace
    /\ rw = IdleRw
    /\ order = NoOrder
    /\ gen = IdleGen
    /\ AssetsAtRest
    /\ PagesAtRest
    /\ SiteAtRest(0)

SafePathCall ==
    /\ phase = "start"
    /\ ret' = safePath(call.root, call.userPath)
    /\ phase' = "done"
    /\ UNCHANGED <<call, trace, rw, order, gen, assetVars, pageVars, siteVars>>

NextPath == SafePathCall

SpecPath == InitPath /\ [][NextPath]_vars

\* the normalized segments of an absolute path
SegsOf(p) == NormFrom(Split(p), 1, <<>>, FALSE)

\* path is the directory root or lies below it, segment by segment
IsUnder(path, root) ==
    LET rs == SegsOf(root)
        ps == Split(Slice(path, 1))
    IN /\ IsAbsolute(path)
       /\ \A i \in 1..Len(ps) : ps[i] # DOTDOT /\ ps[i] # DOT
       /\ path = SEP \/ \A i \in 1..Len(ps) : ps[i] # <<>>
       /\ IF path = SEP THEN rs = <<>>
          ELSE Len(rs) <= Len(ps) /\ SubSeq(ps, 1, Len(rs)) = rs

p_etc_passwd == DOTDOT \o SEP \o DOTDOT \o SEP \o s_etc \o SEP \o s_passwd
p_a_b_html   == s_a \o SEP \o s_b_html

\* "../../etc/passwd" resolved against root lands on root or below it
EtcPasswdIsInside(root) ==
    LET rs == SegsOf(root)
        n  == Len(rs)
        up == IF n >= 2 THEN SubSeq(rs, 1, n - 2) ELSE <<>>
        target == up \o <<s_etc, s_passwd>>
    IN n <= Len(target) /\ SubSeq(target, 1, n) = rs

SafePathDone == phase = "done" /\ trace.handler = "none"

\* C5 (as stated): safePath never returns a path outside the root, and throws for
\* empty input, non-string input and "../../etc/passwd", whatever the root.
C5_AsStated ==
    SafePathDone =>
        /\ ret.threw \/ IsUnder(ret.path, call.root)
        /\ (call.userPath.type # "string" \/ call.userPath.str = <<>>) => ret.threw
        /\ call.userPath = JsString(p_etc_passwd) => ret.threw

\* C5 (amended): safePath never returns a path outside the root; it throws for empty
\* and non-string input; and it throws for "../../etc/passwd" on every root that this
\* path does not resolve into (it resolves into /etc and into a root ending in /etc/passwd).
C5_SafePathStaysInside ==
    SafePathDone =>
        /\ ret.threw \/ IsUnder(ret.path, call.root)
        /\ (call.userPath.type # "string" \/ call.userPath.str = <<>>) => ret.threw
        /\ (call.userPath = JsString(p_etc_passwd) /\ ~EtcPasswdIsInside(call.root)) => ret.threw

\* C5 witness: a sibling whose name starts with the root's name was refused
C5_Witness ==
    /\ SafePathDone
    /\ call.root = r_srv
    /\ call.userPath = JsString(DOTDOT \o SEP \o s_srvx \o SEP \o s_a)
    /\ ret.threw

\* the walk over the segments of a relative path never leaves the starting directory
RECURSIVE DepthOk(_, _, _)
DepthOk(segs, i, d) ==
    IF i > Len(segs) THEN TRUE
    ELSE IF segs[i] = DOTDOT THEN d > 0 /\ DepthOk(segs, i + 1, d - 1)
    ELSE IF segs[i] = DOT \/ segs[i] = <<>> THEN DepthOk(segs, i + 1, d)
    ELSE DepthOk(segs, i + 1, d + 1)

StaysInside(p) == Len(p) > 0 /\ ~IsAbsolute(p) /\ DepthOk(Split(p), 1, 0)

\* C6: for every root, safePath accepts every relative path that stays inside the
\* root and returns a path under the root.
C6_AcceptsInsidePaths ==
    (SafePathDone /\ call.userPath.type = "string" /\ StaysInside(call.userPath.str)) =>
        ~ret.threw /\ IsUnder(ret.path, call.root)

(***************************************************************************)
(* SpecRoutes: one request to one handler that takes a page or asset path  *)
(***************************************************************************)
DRAFTS_DIR == SEP \o s_srv \o SEP \o s_drafts
PUBLIC_DIR == SEP \o s_srv \o SEP \o s_public
EDITOR_DIR == SEP \o s_srv \o SEP \o s_editor
STATIC_DIR == SEP \o s_srv \o SEP \o s_static
DRAFTS_ASSETS_DIR == PathJoin(DRAFTS_DIR, s_assets)

Op(kind, path) == [op |-> kind, path |-> path]

Trace(h, status, accepted, ops) ==
    [handler |-> h, status |-> status, accepted |-> accepted, ops |-> ops]

\* the paths a list of safePath results accepted
AcceptedOf(results) == {r.path : r \in {x \in results : ~x.threw}}

\* services/pages.js getPage: reads drafts/<pagePath>
getPageOps(pagePath) == {Op("readFile", PathJoin(DRAFTS_DIR, pagePath))}

\* services/pages.js savePage: creates the parent directory of drafts/<pagePath> and
\* writes the file (an operation is recorded with the file path it is derived from)
savePageOps(pagePath) ==
    LET fullPath == PathJoin(DRAFTS_DIR, pagePath)
    IN {Op("mkdirParentOf", fullPath), Op("writeFile", fullPath)}

\* services/pages.js deletePage: unlinks drafts/<pagePath>
deletePageOps(pagePath) == {Op("unlink", PathJoin(DRAFTS_DIR, pagePath))}

\* what processChat may hand back: an action and, for create, a page path
AiResults ==
    {[action |-> "respond", newPagePath |-> JsUndefined],
     [action |-> "edit", newPagePath |-> JsUndefined],
     [action |-> "create", newPagePath |-> JsUndefined],
     [action |-> "create", newPagePath |-> JsString(p_a_b_html)],
     [action |-> "create", newPagePath |-> JsString(p_etc_passwd)]}

InitRoutes ==
    /\ call \in {[root |-> DRAFTS_DIR, userPath |-> u, ai |-> NoAi] : u \in UserInputs}
    /\ phase = "start"
    /\ ret = NoRet
    /\ trace = NoTrace
    /\ rw = IdleRw
    /\ order = NoOrder
    /\ gen = IdleGen
    /\ AssetsAtRest
    /\ PagesAtRest
    /\ SiteAtRest(0)

Finish(t) ==
    /\ trace' = t
    /\ phase' = "done"
    /\ UNCHANGED <<ret, rw, order, gen, assetVars, pageVars, siteVars>>

\* POST /api/chat
ApiChat ==
    /\ phase = "start"
    /\ \E ai \in AiResults :
        LET pagePath == call.userPath
            v1 == safePath(DRAFTS_DIR, pagePath)
            v2 == safePath(DRAFTS_DIR, ai.newPagePath)
            read == getPageOps(pagePath.str)
        IN /\ call' = [call EXCEPT !.ai = ai]
           /\ IF Falsy(pagePath) THEN Finish(Trace("apiChat", 400, {}, {}))
              ELSE IF v1.threw THEN Finish(Trace("apiChat", 400, {}, {}))
              ELSE IF ai.action = "create" /\ ~Falsy(ai.newPagePath)
                   THEN IF v2.threw
                        THEN Finish(Trace("apiChat", 422, AcceptedOf({v1}), read))
                        ELSE Finish(Trace("apiChat", 200, AcceptedOf({v1, v2}),
                                          read \cup savePageOps(ai.newPagePath.str)))
              ELSE IF ai.action = "edit"
                   THEN Finish(Trace("apiChat", 200, AcceptedOf({v1}),
                                     read \cup savePageOps(pagePath.str)))
              ELSE Finish(Trace("apiChat", 200, AcceptedOf({v1}), read))

\* a handler of the shape: safePath on the given roots, 400 on a refusal, then the operations
Guarded(h, roots, ops) ==
    /\ phase = "start"
    /\ call.userPath.type = "string"
    /\ UNCHANGED call
    /\ LET vs == {safePath(r, call.userPath) : r \in roots}
       IN IF \E v \in vs : v.threw THEN Finish(Trace(h, 400, {}, {}))
          ELSE Finish(Trace(h, 200, AcceptedOf(vs), ops))

\* GET /api/pages/*
ApiGetPage == Guarded("apiGetPage", {DRAFTS_DIR}, getPageOps(call.userPath.str))

\* PUT /api/pages/*
ApiPutPage == Guarded("apiPutPage", {DRAFTS_DIR}, savePageOps(call.userPath.str))

\* DELETE /api/pages/*
ApiDeletePage == Guarded("apiDeletePage", {DRAFTS_DIR}, deletePageOps(call.userPath.str))

\* GET /publish/status/*
PublishStatusRoute ==
    Guarded("publishStatus", {DRAFTS_DIR, PUBLIC_DIR},
            {Op("access", PathJoin(DRAFTS_DIR, call.userPath.str)),
             Op("access", PathJoin(PUBLIC_DIR, call.userPath.str)),
             Op("stat", PathJoin(DRAFTS_DIR, call.userPath.str)),
             Op("stat", PathJoin(PUBLIC_DIR, call.userPath.str))})

\* POST /publish/*
PublishOneRoute ==
    Guarded("publishOne", {DRAFTS_DIR, PUBLIC_DIR},
            {Op("access", PathJoin(DRAFTS_DIR, call.userPath.str)),
             Op("mkdirParentOf", PathJoin(PUBLIC_DIR, call.userPath.str)),
             Op("copyFileFrom", PathJoin(DRAFTS_DIR, call.userPath.str)),
             Op("copyFileTo", PathJoin(PUBLIC_DIR, call.userPath.str))})

\* DELETE /publish/*
UnpublishRoute ==
    Guarded("unpublish", {PUBLIC_DIR},
            {Op("access", PathJoin(PUBLIC_DIR, call.userPath.str)),
             Op("unlink", PathJoin(PUBLIC_DIR, call.userPath.str))})

\* the URL path the catch-all route sees: the mount point, then the untrusted rest
Mounts == {<<>>, s_editor \o SEP, s_static \o SEP, s_assets \o SEP}

\* server: tryServeStatic(reqPath, request)
TryServeStatic ==
    /\ phase = "start"
    /\ call.userPath.type = "string"
    /\ UNCHANGED call
    /\ \E mount \in Mounts, sourceDraft \in BOOLEAN :
        LET reqPath == SEP \o mount \o call.userPath.str
            rest    == JsString(Slice(reqPath, 8))
            file(v) == IF v.threw THEN Trace("static", 404, {}, {})
                       ELSE Trace("static", 200, {v.path}, {Op("read", v.path)})
            staticPath == IF reqPath = SEP THEN SEP \o s_index ELSE reqPath
            relative   == JsString(Slice(staticPath, 1))
            exact      == safePath(PUBLIC_DIR, relative)
            withHtml   == safePath(PUBLIC_DIR, JsString(relative.str \o s_html))
        IN IF StartsWith(reqPath, SEP \o s_editor \o SEP)
           THEN Finish(file(safePath(EDITOR_DIR, rest)))
           ELSE IF StartsWith(reqPath, SEP \o s_static \o SEP)
           THEN Finish(file(safePath(STATIC_DIR, rest)))
           ELSE IF StartsWith(reqPath, SEP \o s_assets \o SEP) /\ Len(rest.str) > 0 /\ sourceDraft
           THEN Finish(file(safePath(DRAFTS_ASSETS_DIR, rest)))
           ELSE IF exact.threw THEN Finish(Trace("static", 404, {}, {}))
           ELSE IF EndsWith(staticPath, s_html) \/ withHtml.threw
                THEN Finish(Trace("static", 200, {exact.path}, {Op("read", exact.path)}))
                ELSE Finish(Trace("static", 200, {exact.path, withHtml.path},
                                  {Op("read", exact.path), Op("read", withHtml.path)}))

\* routes/preview.js normalizePath
normalizePath(pathname) ==
    LET p1 == IF pathname = SEP \/ EndsWith(pathname, SEP) THEN pathname \o s_index ELSE pathname
        p2 == IF ~EndsWith(p1, s_html) THEN p1 \o s_html ELSE p1
    IN IF IsAbsolute(p2) THEN Slice(p2, 1) ELSE p2

\* routes/preview.js handleDraftPreview, for an authenticated ?draft=true request
HandleDraftPreview ==
    /\ phase = "start"
    /\ call.userPath.type = "string"
    /\ UNCHANGED call
    /\ LET pagePath == normalizePath(SEP \o call.userPath.str)
       IN Finish(Trace("draftPreview", 200, {}, getPageOps(pagePath)))

\* routes/preview.js handleEditMode, for an authenticated ?edit=true request
HandleEditMode ==
    /\ phase = "start"
    /\ call.userPath.type = "string"
    /\ UNCHANGED call
    /\ LET pagePath == normalizePath(SEP \o call.userPath.str)
       IN Finish(Trace("editMode", 200, {}, getPageOps(pagePath)))

NextRoutes ==
    \/ ApiChat
    \/ ApiGetPage
    \/ ApiPutPage
    \/ ApiDeletePage
    \/ PublishStatusRoute
    \/ PublishOneRoute
    \/ UnpublishRoute
    \/ TryServeStatic
    \/ HandleDraftPreview
    \/ HandleEditMode

SpecRoutes == InitRoutes /\ [][NextRoutes]_vars

\* C7: every file operation a handler performs on a request-derived path is on a
\* path that safePath accepted earlier in the same request.
C7_EveryFileOpValidated ==
    (phase = "done" /\ trace.handler # "none") =>
        \A o \in trace.ops : o.path \in trace.accepted

(***************************************************************************)
(* Pages: the draft tree, the public tree and the page routes               *)
(***************************************************************************)
p_d_p    == <<"d">> \o SEP \o <<"p">> \o s_html
PagePool == <<p_d_p, s_index>>          \* the pages the editor works on, in directory order
PagePaths == {PagePool[i] : i \in 1..Len(PagePool)}
MaxClock == 1
MaxBackups == 1

SeqToSet(q) == {q[i] : i \in 1..Len(q)}

\* String.prototype.replace(pattern, by) with a string pattern: the first occurrence
RECURSIVE ReplaceFirstFrom(_, _, _, _)
ReplaceFirstFrom(str, pattern, by, i) ==
    IF i + Len(pattern) - 1 > Len(str) THEN str
    ELSE IF SubSeq(str, i, i + Len(pattern) - 1) = pattern
         THEN SubSeq(str, 1, i - 1) \o by \o SubSeq(str, i + Len(pattern), Len(str))
         ELSE ReplaceFirstFrom(str, pattern, by, i + 1)
ReplaceFirst(str, pattern, by) == ReplaceFirstFrom(str, pattern, by, 1)

\* new Date().toISOString().replace(/[:.]/g, '-'), for the clock's value
Timestamp(t) == <<"t", HexDigits[t + 1]>>

s_backup == <<".", "b", "a", "c", "k", "u", "p", "-">>

\* mutation of BackupPath: the backup's name is the page's name with a suffix
BackupPathSuffixed(pagePath, t) == pagePath \o s_backup \o Timestamp(t)

\* services/pages.js backupPage: the name of the backup of a page made at time t
BackupPath(pagePath, t) == ReplaceFirst(pagePath, s_html, s_backup \o Timestamp(t) \o s_html)

\* the page paths that can come to exist: the pool and the backups of n generations
RECURSIVE PathsUpTo(_)
PathsUpTo(n) ==
    IF n = 0 THEN PagePaths
    ELSE LET P == PathsUpTo(n - 1)
         IN P \cup {BackupPath(q, t) : q \in P, t \in 0..MaxClock}
AllPagePaths == PathsUpTo(MaxBackups)

RECURSIVE SeqOfSet(_)
SeqOfSet(S) == IF S = {} THEN <<>> ELSE LET x == CHOOSE y \in S : TRUE
                                        IN <<x>> \o SeqOfSet(S \ {x})

\* the order in which fs.readdir walks the page paths
DirOrder == PagePool \o SeqOfSet(AllPagePaths \ PagePaths)

\* a file of a tree, under its full path
HasFile(files, full) == \E f \in files : f.path = full
FileAt(files, full)  == CHOOSE f \in files : f.path = full

\* mutation of PutFile: the write leaves no other file in the tree
PutFileAlone(files, full, bytes) == {[path |-> full, bytes |-> bytes, mtime |-> now]}

\* fs.writeFile / the destination of fs.copyFile: the bytes, stamped with the clock
PutFile(files, full, bytes) ==
    {f \in files : f.path # full} \cup {[path |-> full, bytes |-> bytes, mtime |-> now]}

\* fs.unlink
Unlink(files, full) == {f \in files : f.path # full}

\* mutation of CopyFile: the destination keeps the bytes it had, or gets none
CopyFileKeepingOld(dst, src, from, to) ==
    PutFile(dst, to, IF HasFile(dst, to) THEN FileAt(dst, to).bytes ELSE <<>>)

\* fs.copyFile(from, to), for an existing source
CopyFile(dst, src, from, to) == PutFile(dst, to, FileAt(src, from).bytes)

\* path.join(DRAFTS_DIR, pagePath) and path.join(PUBLIC_DIR, pagePath), computed
\* once for every page path
DraftPaths  == [q \in AllPagePaths |-> PathJoin(DRAFTS_DIR, q)]
PublicPaths == [q \in AllPagePaths |-> PathJoin(PUBLIC_DIR, q)]
DraftPath(pagePath)  == DraftPaths[pagePath]
PublicPath(pagePath) == PublicPaths[pagePath]

ExistingDrafts == {q \in AllPagePaths : HasFile(draftPages, DraftPath(q))}
ExistingPublic == {q \in AllPagePaths : HasFile(publicPages, PublicPath(q))}

\* services/pages.js listPages: the .html files of the draft tree, in directory order
listPages ==
    SelectSeq(DirOrder, LAMBDA q : EndsWith(q, s_html) /\ HasFile(draftPages, DraftPath(q)))

\* ---- the sitemap -------------------------------------------------------------
s_slash_index == SEP \o <<"i", "n", "d", "e", "x">>
SITE_URL == <<"u", "/">>

\* services/sitemap.js pagePathToUrlPath
pagePathToUrlPath(pagePath) ==
    LET urlPath == IF EndsWith(pagePath, s_html)
                   THEN SubSeq(pagePath, 1, Len(pagePath) - Len(s_html)) ELSE pagePath
    IN IF urlPath = Slice(s_slash_index, 1) THEN SEP
       ELSE IF EndsWith(urlPath, s_slash_index)
            THEN SEP \o SubSeq(urlPath, 1, Len(urlPath) - 6) \o SEP
            ELSE SEP \o urlPath

\* services/sitemap.js escapeXml
EscapeChar(c) ==
    CASE c = "&"  -> <<"&", "a", "m", "p", ";">>
      [] c = "<"  -> <<"&", "l", "t", ";">>
      [] c = ">"  -> <<"&", "g", "t", ";">>
      [] c = "\"" -> <<"&", "q", "u", "o", "t", ";">>
      [] c = "'"  -> <<"&", "a", "p", "o", "s", ";">>
      [] OTHER    -> <<c>>
RECURSIVE escapeXmlFrom(_, _)
escapeXmlFrom(str, i) ==
    IF i > Len(str) THEN <<>> ELSE EscapeChar(str[i]) \o escapeXmlFrom(str, i + 1)
escapeXml(str) == escapeXmlFrom(str, 1)

\* the <loc> of a page: the base URL without its trailing slash, then the URL path
LocOf == [q \in AllPagePaths |->
            escapeXml((IF EndsWith(SITE_URL, SEP)
                       THEN SubSeq(SITE_URL, 1, Len(SITE_URL) - 1) ELSE SITE_URL)
                      \o pagePathToUrlPath(q))]

\* stats.mtime.toISOString().split('T')[0]: the day of a time, two ticks to the day
DateOf(mtime) == mtime \div 2

\* mutation of listPublishedPages: the files of the top directory only
listTopLevelPages(files) ==
    SelectSeq(DirOrder, LAMBDA q : /\ EndsWith(q, s_html)
                                   /\ HasFile(files, PublicPath(q))
                                   /\ \A i \in 1..Len(q) : <<q[i]>> # SEP)

\* services/sitemap.js listPublishedPages: the .html files of a public tree
listPublishedPages(files) ==
    SelectSeq(DirOrder, LAMBDA q : EndsWith(q, s_html) /\ HasFile(files, PublicPath(q)))

\* services/sitemap.js generateSitemapXml over that listing, and the pageCount that
\* generateSitemap returns with the file written
SitemapOf(files) ==
    LET pages == listPublishedPages(files)
    IN [present |-> TRUE,
        urls |-> [i \in 1..Len(pages) |->
                    [loc |-> LocOf[pages[i]],
                     lastmod |-> DateOf(FileAt(files, PublicPath(pages[i])).mtime)]],
        pageCount |-> Len(pages)]

\* services/sitemap.js generateSitemap: the file written, or left as it was when the
\* generation fails
generateSitemap(files, outcome) == IF outcome = "ok" THEN SitemapOf(files) ELSE sitemap

\* ---- generateSitemap step by step ---------------------------------------------
\* what of page path q lies below directory dir ('' is the public root)
BelowDir(q, dir) ==
    IF dir = <<>> THEN q
    ELSE IF StartsWith(q, dir \o SEP) THEN SubSeq(q, Len(dir) + 2, Len(q)) ELSE <<>>

RECURSIVE FirstSlash(_, _)
FirstSlash(str, i) ==
    IF i > Len(str) THEN 0 ELSE IF <<str[i]>> = SEP THEN i ELSE FirstSlash(str, i + 1)

\* the entry of directory dir through which page path q is found: the file itself, or
\* the subdirectory that holds it (relativePath of lines 27 and 29)
EntryFor(q, dir) ==
    LET rest == BelowDir(q, dir)
        k    == FirstSlash(rest, 1)
    IN IF k = 0 THEN [path |-> q, isDirectory |-> FALSE]
       ELSE [path |-> SubSeq(q, 1, Len(q) - Len(rest) + k - 1), isDirectory |-> TRUE]

\* fs.readdir(fullDir, { withFileTypes: true }) on a public tree, in directory order
RECURSIVE ReaddirFrom(_, _, _, _)
ReaddirFrom(files, dir, i, acc) ==
    IF i > Len(DirOrder) THEN acc
    ELSE LET q == DirOrder[i]
         IN IF HasFile(files, PublicPath(q)) /\ BelowDir(q, dir) # <<>>
                /\ EntryFor(q, dir) \notin SeqToSet(acc)
            THEN ReaddirFrom(files, dir, i + 1, Append(acc, EntryFor(q, dir)))
            ELSE ReaddirFrom(files, dir, i + 1, acc)
Readdir(files, dir) == ReaddirFrom(files, dir, 1, <<>>)

\* one call of listPublishedPages(dir) at its start: the directory has been read
Listing(dir) == [dir |-> dir, entries |-> Readdir(publicPages, dir), i |-> 1, pages |-> <<>>]

\* a call of listPublishedPages returns its pages: to the call that made it, which
\* goes on with them, or to generateSitemap
ReturnPages(pages) ==
    LET n == Len(gen.stack)
    IN IF n = 1 THEN [pc |-> "write", stack |-> <<>>, pages |-> pages]
       ELSE [gen EXCEPT !.stack = [SubSeq(gen.stack, 1, n - 1) EXCEPT ![n - 1].pages = @ \o pages]]

\* generateSitemap lines 133-136: the public directory is made and read
GenStart ==
    /\ gen.pc = "idle"
    /\ gen' = [pc |-> "walk", stack |-> <<Listing(<<>>)>>, pages |-> <<>>]
    /\ UNCHANGED <<callVars, order, assetVars, pageVars, siteVars>>

\* listPublishedPages lines 26-44: the next entry of the directory being walked. A
\* subdirectory is read and walked first; an .html file is looked up with fs.stat and
\* added; a file that is gone by then makes fs.stat throw ENOENT, which the catch
\* of lines 45-49 swallows, and the call returns the pages it has so far
GenStep ==
    /\ gen.pc = "walk"
    /\ LET n   == Len(gen.stack)
           top == gen.stack[n]
       IN IF top.i > Len(top.entries) THEN gen' = ReturnPages(top.pages)
          ELSE LET entry == top.entries[top.i]
               IN IF entry.isDirectory
                  THEN gen' = [gen EXCEPT !.stack = Append([@ EXCEPT ![n].i = @ + 1],
                                                           Listing(entry.path))]
                  ELSE IF ~EndsWith(entry.path, s_html)
                  THEN gen' = [gen EXCEPT !.stack[n].i = @ + 1]
                  ELSE IF HasFile(publicPages, PublicPath(entry.path))
                  THEN gen' = [gen EXCEPT
                                 !.stack[n].i = @ + 1,
                                 !.stack[n].pages = Append(@,
                                     [path |-> entry.path,
                                      lastmod |-> DateOf(FileAt(publicPages,
                                                                PublicPath(entry.path)).mtime)])]
                  ELSE gen' = ReturnPages(top.pages)
    /\ UNCHANGED <<callVars, order, assetVars, pageVars, siteVars>>

\* generateSitemapXml over the pages listed
SitemapFrom(pages) ==
    [present |-> TRUE,
     urls |-> [i \in 1..Len(pages) |-> [loc |-> LocOf[pages[i].path], lastmod |-> pages[i].lastmod]],
     pageCount |-> Len(pages)]

\* generateSitemap lines 139-150: sitemap.xml is written and the page count returned
GenWrite ==
    /\ gen.pc = "write"
    /\ sitemap' = SitemapFrom(gen.pages)
    /\ gen' = [gen EXCEPT !.pc = "returned"]
    /\ UNCHANGED <<callVars, order, assetVars, pageVars, one, faults, backups>>

\* the caller goes on
GenDone ==
    /\ gen.pc = "returned"
    /\ gen' = IdleGen
    /\ UNCHANGED <<callVars, order, assetVars, pageVars, siteVars>>

\* ---- the side effects of a page operation -------------------------------------

\* mutation of Success: a failed side effect fails the operation
SuccessUnlessFailed(op, q, assets, site) ==
    [op |-> op, path |-> q, code |-> IF "failed" \in {assets, site} THEN 500 ELSE 200,
     isPublished |-> FALSE, hasUnpublishedChanges |-> FALSE,
     assets |-> assets, sitemap |-> site]

\* return { success: true, ... } of a page operation, whatever its side effects did
Success(op, q, assets, site) ==
    [op |-> op, path |-> q, code |-> 200,
     isPublished |-> FALSE, hasUnpublishedChanges |-> FALSE,
     assets |-> assets, sitemap |-> site]

\* ---- what the other requests do to a publish-all in progress (bookkeeping) ----
Pending(q) == pall.pc = "copy" /\ \E k \in pall.i..Len(pall.pages) : pall.pages[k] = q
Copied(q)  == q \in SeqToSet(pall.published)

\* a listed page whose turn has not come loses its source, or gets it back; a page
\* already copied is changed behind the copy
NoteDelete(q) ==
    [pall EXCEPT !.lost  = IF Pending(q) THEN @ \cup {q} ELSE @,
                 !.after = IF Copied(q) THEN @ \cup {q} ELSE @]
NoteSave(q) ==
    [pall EXCEPT !.lost  = IF Pending(q) THEN @ \ {q} ELSE @,
                 !.after = IF Copied(q) THEN @ \cup {q} ELSE @]
NoteUnpublish(q) ==
    [pall EXCEPT !.after = IF Copied(q) THEN @ \cup {q} ELSE @]

\* the latest save of a page now comes after its latest publish, or the other way
\* round
NoteSavedLast(q)     == IF order.on THEN [order EXCEPT !.saved = @ \cup {q}] ELSE order
NotePublishedLast(q) == IF order.on THEN [order EXCEPT !.saved = @ \ {q}] ELSE order

\* ---- the draft store -------------------------------------------------------
\* services/pages.js savePage
SavePage ==
    \E q \in PagePaths, b \in Contents :
        /\ draftPages' = PutFile(draftPages, DraftPath(q), b)
        /\ pall' = NoteSave(q)
        /\ order' = NoteSavedLast(q)
        /\ resp' = NoResp
        /\ UNCHANGED <<publicPages, now, plist, callVars, gen, assetVars, siteVars>>

\* services/pages.js deletePage: a page that is not there is not an error
DeletePage ==
    \E q \in PagePaths \cup ExistingDrafts :
        /\ draftPages' = Unlink(draftPages, DraftPath(q))
        /\ pall' = NoteDelete(q)
        /\ resp' = NoResp
        /\ UNCHANGED <<publicPages, now, plist, pathVars, assetVars, siteVars>>

\* what a call of the draft store returns to its caller
StoreReturned(op, q) == [NoResp EXCEPT !.op = op, !.path = q]

\* services/pages.js backupPage: the page's content saved under the backup name,
\* which is returned; nothing happens (null is returned) for a page that is not there
BackupPage ==
    \E q \in ExistingDrafts :
        /\ backups < MaxBackups
        /\ backups' = backups + 1
        /\ draftPages' = PutFile(draftPages, DraftPath(BackupPath(q, now)),
                                 FileAt(draftPages, DraftPath(q)).bytes)
        /\ pall' = NoteSave(BackupPath(q, now))
        /\ resp' = StoreReturned("backupPage", BackupPath(q, now))
        /\ UNCHANGED <<publicPages, now, plist, pathVars, assetVars, sitemap, one, faults>>

\* time passes between two requests, up to a limit
ClockTick(limit) ==
    /\ now < limit
    /\ now' = now + 1
    /\ UNCHANGED <<draftPages, publicPages, resp, pall, plist, pathVars, assetVars, siteVars>>

Tick == ClockTick(MaxClock)

\* ---- status ----------------------------------------------------------------
StatusValue(op, q, isPublished, hasUnpublishedChanges) ==
    [op |-> op, path |-> q, code |-> 200,
     isPublished |-> isPublished, hasUnpublishedChanges |-> hasUnpublishedChanges,
     assets |-> "none", sitemap |-> "none"]
Failure(op, q, code) ==
    [op |-> op, path |-> q, code |-> code,
     isPublished |-> FALSE, hasUnpublishedChanges |-> FALSE,
     assets |-> "none", sitemap |-> "none"]

\* mutation of DraftIsNewer: any difference of the two times counts
DraftTimeDiffers(q) ==
    FileAt(draftPages, DraftPath(q)).mtime # FileAt(publicPages, PublicPath(q)).mtime

\* draftStat.mtime > publicStat.mtime
DraftIsNewer(q) ==
    FileAt(draftPages, DraftPath(q)).mtime > FileAt(publicPages, PublicPath(q)).mtime

\* routes/publish.js GET /publish/status/*
publishStatus(q) ==
    IF ~HasFile(draftPages, DraftPath(q)) THEN Failure("status", q, 404)
    ELSE LET isPublished == HasFile(publicPages, PublicPath(q))
         IN StatusValue("status", q, isPublished, isPublished /\ DraftIsNewer(q))

\* routes/pages.js getPageStatus: one try block around the access of the public copy
\* and the two stats; whichever of them throws, the catch answers isPublished false
getPageStatus(q) ==
    IF ~HasFile(publicPages, PublicPath(q)) THEN StatusValue("getPageStatus", q, FALSE, FALSE)
    ELSE IF ~HasFile(draftPages, DraftPath(q)) THEN StatusValue("getPageStatus", q, FALSE, FALSE)
    ELSE StatusValue("getPageStatus", q, TRUE, DraftIsNewer(q))

GetPublishStatus ==
    \E q \in PagePaths :
        /\ resp' = publishStatus(q)
        /\ UNCHANGED <<draftPages, publicPages, now, pall, plist, pathVars, assetVars, siteVars>>

\* routes/pages.js GET /pages: the listing ...
PagesList ==
    /\ plist = {}
    /\ plist' = SeqToSet(listPages)
    /\ plist' # {}
    /\ UNCHANGED <<draftPages, publicPages, now, resp, pall, pathVars, assetVars, siteVars>>

\* ... and then, for each listed page, its status
PagesListStatus ==
    \E q \in plist :
        /\ resp' = getPageStatus(q)
        /\ plist' = plist \ {q}
        /\ UNCHANGED <<draftPages, publicPages, now, pall, pathVars, assetVars, siteVars>>

\* ---- publishing one page ------------------------------------------------------
\* routes/publish.js POST /publish/*, lines 265-270: no draft, no publish
PublishOneCheck ==
    /\ one.pc = "idle"
    /\ \E q \in PagePaths :
        IF HasFile(draftPages, DraftPath(q))
        THEN /\ one' = [pc |-> "copy", path |-> q]
             /\ UNCHANGED resp
        ELSE /\ resp' = Failure("publish", q, 404)
             /\ UNCHANGED one
    /\ UNCHANGED <<draftPages, publicPages, now, pall, plist, pathVars, assetVars,
                   sitemap, faults, backups>>

\* lines 272-273: the copy; a draft deleted since the check makes copyFile throw,
\* which the handler's outer catch answers with 500
PublishOneCopy ==
    /\ one.pc = "copy"
    /\ IF HasFile(draftPages, DraftPath(one.path))
       THEN /\ publicPages' = CopyFile(publicPages, draftPages,
                                       DraftPath(one.path), PublicPath(one.path))
            /\ one' = [one EXCEPT !.pc = "effects"]
            /\ order' = NotePublishedLast(one.path)
            /\ resp' = NoResp
       ELSE /\ resp' = Failure("publish", one.path, 500)
            /\ one' = IdleOne
            /\ UNCHANGED <<publicPages, order>>
    /\ UNCHANGED <<draftPages, now, pall, plist, callVars, gen, assetVars, sitemap, faults, backups>>

\* lines 275-288: the asset publisher and the sitemap generator, each in its own
\* try/catch, and the answer
PublishOneEffects ==
    /\ one.pc = "effects"
    /\ \E assets \in Outcomes, site \in Outcomes :
        /\ Failed(assets) + Failed(site) <= faults
        /\ faults' = faults - Failed(assets) - Failed(site)
        /\ sitemap' = generateSitemap(publicPages, site)
        /\ resp' = Success("publish", one.path, assets, site)
    /\ one' = IdleOne
    /\ UNCHANGED <<draftPages, publicPages, now, pall, plist, pathVars, assetVars, backups>>

\* ---- unpublishing --------------------------------------------------------------
\* routes/publish.js DELETE /publish/*, lines 317-322: no public copy, no unpublish
UnpublishCheck ==
    /\ one.pc = "idle"
    /\ \E q \in PagePaths :
        IF HasFile(publicPages, PublicPath(q))
        THEN /\ one' = [pc |-> "unlink", path |-> q]
             /\ UNCHANGED resp
        ELSE /\ resp' = Failure("unpublish", q, 404)
             /\ UNCHANGED one
    /\ UNCHANGED <<draftPages, publicPages, now, pall, plist, pathVars, assetVars,
                   sitemap, faults, backups>>

\* lines 324-332: the unlink, then the sitemap generator in its try/catch; a copy
\* unpublished by another request since the check makes unlink throw, which the
\* handler's outer catch answers with 500
UnpublishUnlink ==
    /\ one.pc = "unlink"
    /\ IF HasFile(publicPages, PublicPath(one.path))
       THEN \E site \in Outcomes :
            /\ publicPages' = Unlink(publicPages, PublicPath(one.path))
            /\ pall' = NoteUnpublish(one.path)
            /\ faults' = faults - Failed(site)
            /\ sitemap' = generateSitemap(publicPages', site)
            /\ resp' = Success("unpublish", one.path, "none", site)
       ELSE /\ UNCHANGED <<publicPages, pall, faults, sitemap>>
            /\ resp' = Failure("unpublish", one.path, 500)
    /\ one' = IdleOne
    /\ UNCHANGED <<draftPages, now, plist, pathVars, assetVars, backups>>

\* the same handler served with no other request between its check and its unlink
UnpublishPage ==
    \E q \in PagePaths \cup ExistingPublic :
        /\ IF HasFile(publicPages, PublicPath(q))
           THEN \E site \in Outcomes :
                /\ publicPages' = Unlink(publicPages, PublicPath(q))
                /\ pall' = NoteUnpublish(q)
                /\ faults' = faults - Failed(site)
                /\ sitemap' = generateSitemap(publicPages', site)
                /\ resp' = Success("unpublish", q, "none", site)
           ELSE /\ UNCHANGED <<publicPages, pall, faults, sitemap>>
                /\ resp' = Failure("unpublish", q, 404)
        /\ UNCHANGED <<draftPages, now, plist, pathVars, assetVars, one, backups>>

\* ---- publishing all pages -------------------------------------------------------
PageError(q) == [path |-> q]
AssetsError  == [path |-> s_assets]

\* routes/publish.js POST /publish: the listing; nothing to publish is a 400
PublishAllList ==
    /\ pall.pc = "idle"
    /\ LET pages == listPages
       IN IF Len(pages) = 0
          THEN /\ pall' = [IdlePall EXCEPT !.pc = "returned", !.status = 400]
               /\ resp' = Failure("publishAll", <<>>, 400)
          ELSE /\ pall' = [IdlePall EXCEPT !.pc = "copy", !.pages = pages]
               /\ UNCHANGED resp
    /\ UNCHANGED <<draftPages, publicPages, now, plist, pathVars, assetVars,
                   sitemap, one, faults, backups>>

\* one turn of the loop: the copy of a page, or the catch of its failure
PublishAllCopy ==
    /\ pall.pc = "copy"
    /\ pall.i <= Len(pall.pages)
    /\ LET q == pall.pages[pall.i]
       IN IF HasFile(draftPages, DraftPath(q))
          THEN /\ publicPages' = CopyFile(publicPages, draftPages, DraftPath(q), PublicPath(q))
               /\ pall' = [pall EXCEPT !.i = @ + 1, !.published = Append(@, q)]
               /\ order' = NotePublishedLast(q)
          ELSE /\ UNCHANGED <<publicPages, order>>
               /\ pall' = [pall EXCEPT !.i = @ + 1, !.errors = Append(@, PageError(q))]
    /\ resp' = NoResp
    /\ UNCHANGED <<draftPages, now, plist, callVars, gen, assetVars, siteVars>>

\* after the loop: the assets (their failure is one more entry of errors), the
\* sitemap (its failure is only logged), and the report
PublishAllFinish ==
    /\ pall.pc = "copy"
    /\ pall.i > Len(pall.pages)
    /\ \E assets \in Outcomes, site \in Outcomes :
        /\ Failed(assets) + Failed(site) <= faults
        /\ faults' = faults - Failed(assets) - Failed(site)
        /\ pall' = [pall EXCEPT !.pc = "returned", !.status = 200,
                                !.errors = IF assets = "ok" THEN @ ELSE Append(@, AssetsError)]
        /\ sitemap' = generateSitemap(publicPages, site)
        /\ resp' = Success("publishAll", <<>>, assets, site)
    /\ UNCHANGED <<draftPages, publicPages, now, plist, pathVars, assetVars, one, backups>>

\* the report has been delivered
PublishAllDone ==
    /\ pall.pc = "returned"
    /\ pall' = IdlePall
    /\ UNCHANGED <<draftPages, publicPages, now, resp, plist, pathVars, assetVars, siteVars>>

\* no request is under way
NoRequest == pall.pc = "idle" /\ one.pc = "idle"

\* status requests among edits, publishes and unpublishes; no side effect fails
InitPages == PagesAtRest /\ PathAtRest /\ AssetsAtRest /\ SiteAtRest(0)

NextStatus ==
    \/ SavePage
    \/ DeletePage
    \/ Tick
    \/ PublishOneCheck
    \/ PublishOneCopy
    \/ PublishOneEffects
    \/ UnpublishPage
    \/ GetPublishStatus
    \/ PagesList
    \/ PagesListStatus

SpecStatus == InitPages /\ [][NextStatus]_vars

\* saves, publishes and status requests one after the other, each save and each
\* copy of a publish at a time of its own, later than the times of all files
MaxTimes == 3

Fresh == \A f \in draftPages \cup publicPages : f.mtime < now

InitTimes ==
    /\ order = [on |-> TRUE, saved |-> {}]
    /\ gen = IdleGen
    /\ rw = IdleRw
    /\ call = [root |-> <<>>, userPath |-> JsUndefined, ai |-> NoAi]
    /\ phase = "done"
    /\ ret = [threw |-> FALSE, path |-> <<"?">>]
    /\ trace = NoTrace
    /\ PagesAtRest
    /\ AssetsAtRest
    /\ SiteAtRest(0)

NextTimes ==
    \/ NoRequest /\ Fresh /\ SavePage
    \/ ClockTick(MaxTimes)
    \/ NoRequest /\ PublishOneCheck
    \/ Fresh /\ PublishOneCopy
    \/ PublishOneEffects
    \/ NoRequest /\ PublishAllList
    \/ Fresh /\ PublishAllCopy
    \/ PublishAllFinish
    \/ PublishAllDone
    \/ NoRequest /\ GetPublishStatus

SpecTimes == InitTimes /\ [][NextTimes]_vars

\* a publish of all pages among edits and unpublishes; a side effect may fail
InitPublishing == PagesAtRest /\ PathAtRest /\ AssetsAtRest /\ SiteAtRest(MaxFaults)

NextPublishAll ==
    \/ SavePage
    \/ DeletePage
    \/ UnpublishPage
    \/ PublishAllList
    \/ PublishAllCopy
    \/ PublishAllFinish
    \/ PublishAllDone

SpecPublishAll == InitPublishing /\ [][NextPublishAll]_vars

\* no publish is under way
NoPublish == pall.pc = "idle" /\ one.pc \in {"idle", "unlink"}

\* the page requests one at a time, but for a second unpublish that may come while
\* a first one is under way; saves and deletes of drafts come in between their steps;
\* a side effect may fail
NextSite ==
    \/ SavePage
    \/ DeletePage
    \/ NoRequest /\ PublishOneCheck
    \/ PublishOneCopy
    \/ PublishOneEffects
    \/ NoRequest /\ UnpublishCheck
    \/ UnpublishUnlink
    \/ NoPublish /\ UnpublishPage
    \/ NoRequest /\ PublishAllList
    \/ PublishAllCopy
    \/ PublishAllFinish
    \/ PublishAllDone

SpecSite == InitPublishing /\ [][NextSite]_vars

\* the requests and the store's operations (save, delete, backup) one at a
\* time, each running to its end before the next starts; no side effect fails

NextStore ==
    \/ NoRequest /\ SavePage
    \/ NoRequest /\ DeletePage
    \/ NoRequest /\ BackupPage
    \/ NoRequest /\ PublishOneCheck
    \/ PublishOneCopy
    \/ PublishOneEffects
    \/ NoRequest /\ UnpublishPage
    \/ NoRequest /\ PublishAllList
    \/ PublishAllCopy
    \/ PublishAllFinish
    \/ PublishAllDone

SpecStore == InitPages /\ [][NextStore]_vars

\* ---- status claims -----------------------------------------------------------
IsStatusAnswer == resp.op \in {"status", "getPageStatus"}

\* C8: whenever a status computation succeeds for a page, isPublished is true
\* exactly when the public copy exists, and hasUnpublishedChanges is true exactly
\* when isPublished is true and the draft's mtime is strictly greater than the
\* public copy's; isPublished false never comes with hasUnpublishedChanges true.
C8_StatusMatchesFiles ==
    (IsStatusAnswer /\ resp.code = 200) =>
        /\ resp.isPublished <=> HasFile(publicPages, PublicPath(resp.path))
        /\ resp.hasUnpublishedChanges <=>
              (/\ resp.isPublished
               /\ HasFile(draftPages, DraftPath(resp.path))
               /\ HasFile(publicPages, PublicPath(resp.path))
               /\ DraftIsNewer(resp.path))
        /\ ~(~resp.isPublished /\ resp.hasUnpublishedChanges)

\* C9: a status computation for a path with no draft fails with not-found, whether
\* or not a public copy exists; it never answers with a status value.
C9_NoDraftIsNotFound ==
    (IsStatusAnswer /\ ~HasFile(draftPages, DraftPath(resp.path))) => resp.code = 404

\* ---- publish-all claim ---------------------------------------------------------
PublishedSet == SeqToSet(pall.published)
PageErrors   == SelectSeq(pall.errors, LAMBDA e : e # AssetsError)
ErrorSet     == {e.path : e \in SeqToSet(PageErrors)}

\* C10: publish-all answers with its report whatever happens to single pages: every
\* listed page is in exactly one of published and errors, the pages in errors are
\* exactly those whose source was gone when their turn came, all the others are
\* copied, and every published page that no other request changed since has a
\* public copy with the bytes of its draft.
C10_PublishAllReport ==
    (pall.pc = "returned" /\ pall.pages # <<>>) =>
        /\ pall.status = 200
        /\ PublishedSet \cup ErrorSet = SeqToSet(pall.pages)
        /\ PublishedSet \cap ErrorSet = {}
        /\ Len(pall.published) = Cardinality(PublishedSet)
        /\ Len(PageErrors) = Cardinality(ErrorSet)
        /\ ErrorSet = pall.lost
        /\ \A q \in PublishedSet \ pall.after :
              /\ HasFile(publicPages, PublicPath(q))
              /\ HasFile(draftPages, DraftPath(q))
              /\ FileAt(publicPages, PublicPath(q)).bytes = FileAt(draftPages, DraftPath(q)).bytes

\* a report with a page in errors and a page in published that nobody touched since
C10_Witness ==
    /\ pall.pc = "returned"
    /\ pall.status = 200
    /\ ErrorSet # {}
    /\ PublishedSet \ pall.after # {}

\* ---- side-effect claims -----------------------------------------------------------
\* a page operation has just answered with success
Succeeded(op) == resp.op = op /\ resp.code = 200

\* C12: once the unpublish of the only published page has succeeded, its sitemap
\* generation included, there is no sitemap.xml in the public tree.
C12_LastUnpublishDeletesSitemap ==
    (Succeeded("unpublish") /\ resp.sitemap = "ok" /\ ExistingPublic = {}) => ~sitemap.present

\* C13: every successful publish of all pages, publish of one page and unpublish has
\* run both the asset publisher and the sitemap generator.
C13_BothSideEffectsRun ==
    (Succeeded("publishAll") \/ Succeeded("publish") \/ Succeeded("unpublish")) =>
        (resp.assets # "none" /\ resp.sitemap # "none")

\* the step is the end of a page operation in which a side effect failed
SideEffectFailed == faults' < faults

\* C14: a step in which the asset publisher or the sitemap generator fails still
\* answers with success, and leaves the copy or the deletion of the operation in
\* effect: the public tree is what it was, or what it was less the unpublished page.
C14_SideEffectFailureIsNotFatal ==
    [][SideEffectFailed =>
        /\ resp'.code = 200
        /\ "failed" \in {resp'.assets, resp'.sitemap}
        /\ CASE resp'.op = "publish" ->
                  /\ publicPages' = publicPages
                  /\ HasFile(publicPages', PublicPath(resp'.path))
             [] resp'.op = "publishAll" ->
                  /\ publicPages' = publicPages
                  /\ \A q \in SeqToSet(pall'.published) : HasFile(publicPages', PublicPath(q))
             [] resp'.op = "unpublish" ->
                  /\ publicPages' = Unlink(publicPages, PublicPath(resp'.path))
                  /\ ~HasFile(publicPages', PublicPath(resp'.path))
             [] OTHER -> FALSE]_vars

\* a publish of one page answered with success although its assets failed, the copy
\* in place
C14_Witness ==
    /\ Succeeded("publish")
    /\ resp.assets = "failed"
    /\ HasFile(publicPages, PublicPath(resp.path))

\* C15: a publish of one page ends in success or in not-found, never in another
\* failure.
C15_PublishOneOutcomes == resp.op = "publish" => resp.code \in {200, 404}

\* the step is an unpublish that answers
UnpublishAnswers == resp' # resp /\ resp'.op = "unpublish"

\* the files of a tree other than the one at a path
Others(files, full) == {f \in files : f.path # full}

\* C16: an unpublish of p succeeds exactly when the public copy of p exists; on
\* success that copy is gone while the drafts and every other public page are as
\* they were; otherwise it answers not-found and changes nothing.
C16_UnpublishContract ==
    [][UnpublishAnswers =>
        LET full == PublicPath(resp'.path)
        IN /\ resp'.code = IF HasFile(publicPages, full) THEN 200 ELSE 404
           /\ resp'.code = 200 =>
                 /\ ~HasFile(publicPages', full)
                 /\ Others(publicPages', full) = Others(publicPages, full)
                 /\ draftPages' = draftPages
           /\ resp'.code = 404 =>
                 /\ publicPages' = publicPages
                 /\ draftPages' = draftPages
                 /\ sitemap' = sitemap]_vars

\* the step is a successful unpublish of q
Unpublishes(q) == UnpublishAnswers /\ resp'.path = q /\ resp'.code = 200

\* C17: a public copy is still there after every step that is not an unpublish of
\* its page: saves, deletes and backups of drafts, publishes of one page and of all
\* pages with their assets and sitemap, unpublishes of other pages.
C17_PublicCopyPersists ==
    [][\A q \in AllPagePaths :
        (HasFile(publicPages, PublicPath(q)) /\ ~Unpublishes(q)) =>
            HasFile(publicPages', PublicPath(q))]_vars

\* a public copy whose draft has been deleted, after a backup and a sitemap
C17_Witness ==
    \E q \in PagePaths :
        /\ HasFile(publicPages, PublicPath(q))
        /\ ~HasFile(draftPages, DraftPath(q))
        /\ ExistingPublic # {q}
        /\ backups > 0
        /\ sitemap.present

(***************************************************************************)
(* SpecPageStore: one call of one operation of the page store               *)
(***************************************************************************)
\* services/pages.js listPages(dir): makes sure of the drafts directory, then reads
\* drafts/<dir>
listPagesOps(dir) == {Op("mkdir", DRAFTS_DIR), Op("readdir", PathJoin(DRAFTS_DIR, dir))}

\* services/pages.js backupPage: reads the page and, when it has content, saves it
\* under the backup name
backupPageOps(pagePath, hasContent, t) ==
    getPageOps(pagePath) \cup
        (IF hasContent THEN savePageOps(BackupPath(pagePath, t)) ELSE {})

\* a call of a store operation with the string handed over: no validation, the
\* operations, and the return
StoreCall(h, ops) ==
    /\ phase = "start"
    /\ call.userPath.type = "string"
    /\ UNCHANGED call
    /\ Finish(Trace(h, 200, {}, ops))

StoreGetPage    == StoreCall("getPage", getPageOps(call.userPath.str))
StoreSavePage   == StoreCall("savePage", {Op("mkdir", DRAFTS_DIR)} \cup savePageOps(call.userPath.str))
StoreDeletePage == StoreCall("deletePage", deletePageOps(call.userPath.str))
StoreListPages  == StoreCall("listPages", listPagesOps(call.userPath.str))
StoreBackupPage ==
    \E hasContent \in BOOLEAN, t \in 0..MaxClock :
        StoreCall("backupPage",
                  backupPageOps(call.userPath.str, hasContent, t)
                      \cup (IF hasContent THEN {Op("mkdir", DRAFTS_DIR)} ELSE {}))

NextPageStore ==
    \/ StoreGetPage
    \/ StoreSavePage
    \/ StoreDeletePage
    \/ StoreListPages
    \/ StoreBackupPage

SpecPageStore == InitRoutes /\ [][NextPageStore]_vars

StoreOperations == {"getPage", "savePage", "deletePage", "listPages", "backupPage"}

\* C18: whatever path a page-store operation is called with, every file operation
\* it performs is on the draft tree.
C18_PageStoreStaysInDrafts ==
    (phase = "done" /\ trace.handler \in StoreOperations) =>
        \A o \in trace.ops : IsUnder(o.path, DRAFTS_DIR)

(***************************************************************************)
(* SpecManifest: one load of the manifest file, then one rewrite of a page  *)
(***************************************************************************)
MaxEntries == 2
MaxRefs == 2

a_css_map == a_css \o <<".", "m", "a", "p">>
x_js      == <<"x", ".", "j", "s">>

\* what JSON.parse may give for a manifest text: an object with its entries in the
\* order of the text, or a value that is no object
JsonObject(entries) == [kind |-> "object", entries |-> entries]
JsonNull   == [kind |-> "null", entries |-> <<>>]
JsonNumber == [kind |-> "number", entries |-> <<>>]
\* an array has its indices as keys
JsonArray(items) ==
    [kind |-> "array", entries |-> [i \in 1..Len(items) |-> [orig |-> <<HexDigits[i]>>, fp |-> items[i]]]]

ManifestKeys == {a_css, a_css_map, d_n}

\* the entries the asset publisher writes for a key: its fingerprinted name
EntryOf(key, bytes) == [orig |-> key, fp |-> fingerprintedName(key, Digest(bytes))]

\* the sequences of at most n entries with different keys
EntrySeqs(n) ==
    UNION {{es \in [1..k -> {EntryOf(key, b) : key \in ManifestKeys, b \in Contents}] :
                \A i, j \in 1..k : i # j => es[i].orig # es[j].orig} : k \in 0..n}

JsonValues ==
    {JsonObject(es) : es \in EntrySeqs(MaxEntries)}
        \cup {JsonNull, JsonNumber, JsonArray(<<x_js>>)}

\* public/assets/manifest.json as loadManifest may find it
ManifestFiles ==
    {[state |-> st, value |-> EmptyObject] : st \in {"missing", "unreadable", "malformed"}}
        \cup {[state |-> "json", value |-> v] : v \in JsonValues}

\* asset-manifest.js loadManifest: the parsed text whatever it is, and {} when the
\* read or the parse throws
loadManifest(file) == IF file.state = "json" THEN file.value ELSE EmptyObject

\* String.prototype.replaceAll(pattern, by) with a string pattern
RECURSIVE ReplaceAllFrom(_, _, _, _)
ReplaceAllFrom(str, pattern, by, i) ==
    IF i > Len(str) THEN <<>>
    ELSE IF i + Len(pattern) - 1 <= Len(str) /\ SubSeq(str, i, i + Len(pattern) - 1) = pattern
         THEN by \o ReplaceAllFrom(str, pattern, by, i + Len(pattern))
         ELSE <<str[i]>> \o ReplaceAllFrom(str, pattern, by, i + 1)
ReplaceAll(str, pattern, by) == ReplaceAllFrom(str, pattern, by, 1)

AssetRef(name) == s_assets \o SEP \o name

\* the loop of rewriteAssetPaths over Object.entries(manifest)
RECURSIVE RewriteFrom(_, _, _)
RewriteFrom(result, entries, i) ==
    IF i > Len(entries) THEN result
    ELSE RewriteFrom(ReplaceAll(result, AssetRef(entries[i].orig), AssetRef(entries[i].fp)),
                     entries, i + 1)

Rewritten(html) == [threw |-> FALSE, html |-> html]
TypeError        == [threw |-> TRUE, html |-> <<>>]

\* asset-manifest.js rewriteAssetPaths: Object.keys throws for null
rewriteAssetPaths(html, m) ==
    IF Len(html) = 0 THEN Rewritten(html)
    ELSE IF m.kind = "null" THEN TypeError
    ELSE IF Len(m.entries) = 0 THEN Rewritten(html)
    ELSE Rewritten(RewriteFrom(html, m.entries, 1))

\* a page text: references to assets, each in its quotes
RefPool == ManifestKeys \cup {x_js}
RefSeqs == UNION {[1..k -> RefPool] : k \in 0..MaxRefs}
QUOTE == <<"\"">>
RECURSIVE Render(_, _)
Render(names, i) ==
    IF i > Len(names) THEN <<>>
    ELSE QUOTE \o AssetRef(names[i]) \o QUOTE \o Render(names, i + 1)

InitManifest ==
    /\ rw \in {[IdleRw EXCEPT !.pc = "start", !.file = f, !.refs = r, !.html = Render(r, 1)] :
                  f \in ManifestFiles, r \in RefSeqs}
    /\ call = [root |-> <<>>, userPath |-> JsUndefined, ai |-> NoAi]
    /\ phase = "done"
    /\ ret = NoRet
    /\ trace = NoTrace
    /\ order = NoOrder
    /\ gen = IdleGen
    /\ AssetsAtRest
    /\ PagesAtRest
    /\ SiteAtRest(0)

LoadManifest ==
    /\ rw.pc = "start"
    /\ rw' = [rw EXCEPT !.pc = "loaded", !.manifest = loadManifest(rw.file)]
    /\ UNCHANGED <<call, phase, ret, trace, order, gen, assetVars, pageVars, siteVars>>

RewriteAssetPaths ==
    /\ rw.pc = "loaded"
    /\ rw' = [rw EXCEPT !.pc = "done", !.out = rewriteAssetPaths(rw.html, rw.manifest)]
    /\ UNCHANGED <<call, phase, ret, trace, order, gen, assetVars, pageVars, siteVars>>

\* the rewrite applied to its own output, under the same manifest
RewriteAgain ==
    /\ rw.pc = "done"
    /\ ~rw.out.threw
    /\ rw' = [rw EXCEPT !.pc = "again", !.again = rewriteAssetPaths(rw.out.html, rw.manifest)]
    /\ UNCHANGED <<call, phase, ret, trace, order, gen, assetVars, pageVars, siteVars>>

NextManifest == LoadManifest \/ RewriteAssetPaths \/ RewriteAgain

SpecManifest == InitManifest /\ [][NextManifest]_vars

\* C19: whatever the manifest file holds, the manifest loaded from it is a mapping:
\* the mapping of the file when the file is there and parses, the empty mapping
\* otherwise; and the rewrite that follows completes.
C19_LoadedManifestIsMapping ==
    /\ rw.pc \in {"loaded", "done"} =>
          /\ rw.manifest.kind = "object"
          /\ rw.manifest = IF rw.file.state = "json" THEN rw.file.value ELSE EmptyObject
    /\ rw.pc = "done" => ~rw.out.threw

\* the texts between the quotes of a page text, one per reference
RECURSIVE QuotedFrom(_, _, _, _)
QuotedFrom(str, i, inside, current) ==
    IF i > Len(str) THEN <<>>
    ELSE IF <<str[i]>> = QUOTE
         THEN IF inside THEN <<current>> \o QuotedFrom(str, i + 1, FALSE, <<>>)
              ELSE QuotedFrom(str, i + 1, TRUE, <<>>)
         ELSE QuotedFrom(str, i + 1, inside, IF inside THEN Append(current, str[i]) ELSE current)
Quoted(str) == QuotedFrom(str, 1, FALSE, <<>>)

\* C20: with an empty manifest the rewrite returns its input; otherwise, for every
\* entry of the manifest, wherever assets/<original> occurs in the input the output
\* has assets/<fingerprinted name of that entry>, whatever the keys and their order.
C20_RewriteReplacesEveryOccurrence ==
    (rw.pc = "done" /\ rw.manifest.kind = "object") =>
        /\ ~rw.out.threw
        /\ rw.manifest.entries = <<>> => rw.out.html = rw.html
        /\ LET after == Quoted(rw.out.html)
           IN /\ Len(after) = Len(rw.refs)
              /\ \A k \in 1..Len(rw.refs), i \in 1..Len(rw.manifest.entries) :
                    StartsWith(AssetRef(rw.refs[k]), AssetRef(rw.manifest.entries[i].orig)) =>
                        StartsWith(after[k], AssetRef(rw.manifest.entries[i].fp))

\* the manifest is one the asset publisher writes: an object whose values are the
\* fingerprinted names of its keys
FromPublisher(m) ==
    /\ m.kind = "object"
    /\ \A i \in 1..Len(m.entries) :
          \E b \in Contents : m.entries[i] = EntryOf(m.entries[i].orig, b)

\* C21: under a manifest written by the asset publisher, rewriting the output of a
\* rewrite again gives that output, also for assets without an extension.
C21_RewriteIdempotent ==
    (rw.pc = "again" /\ FromPublisher(rw.manifest)) => rw.again = rw.out

\* ---- the asset publisher aborting ------------------------------------------------
\* the step is caller c's read of an asset that is gone, or a write of its that fails
AssetFails(c) ==
    \/ /\ pub[c].pc = "loop"
       /\ pub[c].i <= Len(pub[c].entries)
       /\ ~HasDraft(pub[c].entries[pub[c].i])
       /\ pub'[c] # pub[c]
    \/ /\ pub[c].pc \in {"write", "br"}
       /\ faults' < faults

\* the public files caller c's publish has added or changed are those of the assets
\* it has read
OnlyOfAssetsRead(c, before, after) ==
    \A f \in after \ before :
        \E k \in 1..Len(pub[c].hashByBasePath) :
            LET e == pub[c].hashByBasePath[k]
            IN f.name \in {fingerprintedName(e.rel, e.hash), fingerprintedName(e.rel, e.hash) \o s_br}

\* C22: when the read or a write of one asset fails, the publish throws; a publish
\* that has thrown has written the files of the assets before the failing one only,
\* has left manifest.json and the in-memory manifest as it found them, and does
\* nothing more.
C22_AssetFailureAborts ==
    [][/\ AssetFails(1) => pub'[1].pc = "threw"
       /\ (pub[1].pc # "threw" /\ pub'[1].pc = "threw") =>
             /\ manifestFile' = hist'.start.manifestFile
             /\ manifest' = hist'.start.manifest
             /\ OnlyOfAssetsRead(1, hist'.start.publicAssets, publicAssets')
       /\ pub[1].pc = "threw" =>
             /\ pub'[1].pc \in {"threw", "idle"}
             /\ UNCHANGED <<manifestFile, manifest, publicAssets>>]_vars

\* a publish that found a manifest has thrown after writing a file
C22_Witness ==
    /\ pub[1].pc = "threw"
    /\ pub[1].i <= Len(pub[1].entries)
    /\ hist.start.manifestFile.present
    /\ publicAssets # hist.start.publicAssets
    /\ manifestFile = hist.start.manifestFile
    /\ manifest = hist.start.manifest

\* ---- sitemap claims -----------------------------------------------------------------
\* the .html files of the public tree, at any depth
PublishedHtml == {q \in ExistingPublic : EndsWith(q, s_html)}

\* C23: after a publish of one page, a publish of all pages or an unpublish that ran
\* on its own and whose sitemap generation returned, sitemap.xml has exactly one url
\* for each .html file of the public tree, and the pageCount returned is their number.
C23_SitemapListsPublicPages ==
    ((Succeeded("publish") \/ Succeeded("publishAll") \/ Succeeded("unpublish"))
        /\ resp.sitemap = "ok") =>
        /\ sitemap.present
        /\ {sitemap.urls[i].loc : i \in 1..Len(sitemap.urls)} = {LocOf[q] : q \in PublishedHtml}
        /\ Len(sitemap.urls) = Cardinality(PublishedHtml)
        /\ sitemap.pageCount = Cardinality(PublishedHtml)

\* an unpublish has left the page of a subdirectory as the only url
C23_Witness ==
    /\ Succeeded("unpublish")
    /\ resp.sitemap = "ok"
    /\ PublishedHtml = {p_d_p}
    /\ Len(sitemap.urls) = 1

\* C24: a publish of all pages answers with its report of published pages and
\* errors whatever the draft tree holds, no page at all included, and has run the
\* asset publisher and the sitemap generator.
C24_PublishAllAlwaysReports ==
    resp.op = "publishAll" =>
        /\ resp.code = 200
        /\ resp.assets # "none"
        /\ resp.sitemap # "none"

\* ---- manifest and public assets ------------------------------------------------------
PublicNames == {f.name : f \in publicAssets}

C26_StalenessFollowsOrder ==
    /\ (resp.op = "status" /\ resp.code = 200) =>
          /\ resp.isPublished = HasFile(publicPages, PublicPath(resp.path))
          /\ resp.hasUnpublishedChanges =
                (HasFile(publicPages, PublicPath(resp.path)) /\ resp.path \in order.saved)
    /\ Succeeded("publish") =>
          /\ publishStatus(resp.path).code = 200
          /\ publishStatus(resp.path).isPublished
          /\ ~publishStatus(resp.path).hasUnpublishedChanges

\* a page saved again after its publish is reported with unpublished changes
C26_Witness ==
    /\ resp.op = "status"
    /\ resp.code = 200
    /\ resp.isPublished
    /\ resp.hasUnpublishedChanges
    /\ resp.path \in order.saved

\* C27: a publish of the assets that found drafts/assets and processed every listed
\* file has written manifest.json and goes on to reload the cache: it never throws
\* once its loop is over, not even when no file was publishable
C27_ProcessedLoopWritesManifest ==
    \A c \in Callers : ~(pub[c].pc = "threw" /\ pub[c].i > Len(pub[c].entries))

\* the public asset files that are not Brotli siblings
Fingerprinted == {f \in publicAssets : f.data.enc = "raw"}

\* C28: in every state, with draft assets edited during a publish and with two
\* publishes overlapping, every fingerprinted public file carries in its name the
\* digest of its own bytes, every .br file is the compression of the bytes of the
\* file it stands beside, every fingerprinted file has its sibling once no publish is
\* running, and the digest a publish has noted is that of the bytes it writes
C28_ContentAddressIntegrity ==
    /\ \A f \in Fingerprinted :
          \E rel \in PoolRels : f.name = DigestBeforeExtension(rel, Digest(f.data.bytes))
    /\ \A f \in publicAssets \ Fingerprinted :
          \E g \in Fingerprinted : f.name = g.name \o s_br /\ f.data = Brotli(g.data.bytes)
    /\ (\A c \in Callers : ~Active(c)) =>
          \A g \in Fingerprinted : \E f \in publicAssets : f.name = g.name \o s_br
    /\ \A c \in Callers : pub[c].pc \in {"write", "br"} =>
          pub[c].hashByBasePath[Len(pub[c].hashByBasePath)].hash = Digest(pub[c].content)

\* two publishes overlap, the draft has been edited since the first one read it, and
\* the first one has written its fingerprinted file
C28_Witness ==
    /\ pub[1].pc = "br"
    /\ Active(2)
    /\ \E f \in draftAssets : f.rel = pub[1].entries[pub[1].i] /\ f.bytes # pub[1].content
    /\ \E f \in publicAssets : f.name = OutName(1)

\* the drafts that backupPage made
Backups == ExistingDrafts \ PagePaths

\* C29: the path backupPage returns ends in .html and names a draft; every backup
\* there is ends in .html and is listed by listPages; and when a publish of all pages
\* has answered, every backup is in the public tree with the bytes of its draft and
\* has its url in the sitemap.
C29_BackupIsDraftPage ==
    /\ resp.op = "backupPage" =>
          /\ EndsWith(resp.path, s_html)
          /\ resp.path \in Backups
    /\ \A q \in Backups :
          /\ EndsWith(q, s_html)
          /\ q \in SeqToSet(listPages)
    /\ Succeeded("publishAll") =>
          \A q \in Backups :
              /\ HasFile(publicPages, PublicPath(q))
              /\ FileAt(publicPages, PublicPath(q)).bytes = FileAt(draftPages, DraftPath(q)).bytes
              /\ \E i \in 1..Len(sitemap.urls) : sitemap.urls[i].loc = LocOf[q]

\* a publish of all pages has answered while the draft tree holds a backup
C29_Witness ==
    /\ Succeeded("publishAll")
    /\ Backups # {}
    /\ \A q \in Backups : HasFile(publicPages, PublicPath(q))

\* ---- a sitemap generation among unpublishes ------------------------------------
\* pages are saved, backed up and published while no sitemap generation is being
\* followed; one that is followed step by step runs among unpublish requests
NoGeneration == gen.pc = "idle"

NextGeneration ==
    \/ NoGeneration /\ NoRequest /\ SavePage
    \/ NoGeneration /\ NoRequest /\ BackupPage
    \/ NoGeneration /\ NoRequest /\ PublishAllList
    \/ PublishAllCopy
    \/ PublishAllFinish
    \/ PublishAllDone
    \/ NoRequest /\ UnpublishPage
    \/ NoRequest /\ GenStart
    \/ GenStep
    \/ GenWrite
    \/ GenDone

SpecGeneration == InitPages /\ [][NextGeneration]_vars

\* C30: the pages a sitemap generation has listed when it writes the file include
\* every .html page that is in the public tree then, whatever was unpublished while
\* it ran: only unpublished pages are missing.
C30_OnlyUnpublishedPagesMissing ==
    gen.pc = "write" =>
        PublishedHtml \subseteq {gen.pages[i].path : i \in 1..Len(gen.pages)}

====
